---------------------------- MODULE Spec2Model ----------------------------
(***************************************************************************)
(* A model of the butterknife credential broker: the receipt ledger        *)
(* (ReceiptChain), the vault, the wallet, the provider registry and the    *)
(* call pipeline (ApiProxy.call).                                          *)
(*                                                                         *)
(* Modelling conventions.                                                  *)
(*  - JavaScript strings are TLA+ strings; template literals and "+" on    *)
(*    strings are \o.                                                      *)
(*  - A JSON value is a tagged record: [t |-> "undef"], [t |-> "null"],    *)
(*    [t |-> "bool", v], [t |-> "num", v], [t |-> "str", v],               *)
(*    [t |-> "arr", v |-> <<values>>] and                                  *)
(*    [t |-> "obj", v |-> <<[k |-> key, v |-> value], ...>>], the pairs    *)
(*    of an object in insertion order, as Object.keys lists them.          *)
(*  - SHA-256 is idealised as a collision-free function: the digest of s   *)
(*    is the string "sha256(" \o s \o ")".                                 *)
(*  - A JavaScript Map is a sequence of [k, v] entries with distinct keys, *)
(*    in insertion order.                                                  *)
(*  - Object keys used for by-provider accounting are provider ids as the  *)
(*    registry spells them; none of them names a member of                 *)
(*    Object.prototype.                                                    *)
(***************************************************************************)
EXTENDS Integers, Sequences, FiniteSets, TLC

VARIABLES
    receipts,       \* ReceiptChain.receipts
    contextId,      \* ReceiptChain.contextId
    receiptsFile,   \* the file at ReceiptChain.receiptsPath
    tamper,         \* what was altered in receiptsFile behind the program's back
    records,        \* Vault.records
    vaultFile,      \* the file at Vault.vaultPath
    data,           \* Wallet.data
    walletFile,     \* the file at Wallet.walletPath
    providers,      \* ProviderRegistry.providers
    calls,          \* the frames of the ApiProxy.call invocations
    running,        \* the call() that holds the (single) JavaScript thread, 0 for none
    ret,            \* the last operation invoked on a store and what it returned
    verbose,        \* VERBOSE of the HLOS handlers: BUTTERKNIFE_VERBOSE === "true"
    kernelRequests  \* the requests the HLOS handlers sent to the kernel, in order

ledgerVars == <<receipts, contextId, receiptsFile, tamper>>
vaultVars  == <<records, vaultFile>>
walletVars == <<data, walletFile>>
hlosVars   == <<verbose, kernelRequests>>
callVars   == <<providers, calls, running, hlosVars>>
vars == <<receipts, contextId, receiptsFile, tamper, records, vaultFile,
          data, walletFile, providers, calls, running, ret, verbose, kernelRequests>>

---------------------------------------------------------------------------
(* Bounds of the model *)

MaxReceipts == 3
MaxSpent == 6
MaxCalls == 2
MaxKernelRequests == 2

---------------------------------------------------------------------------
(* JSON values *)

Undefined == [t |-> "undef"]
Null      == [t |-> "null"]
Str(s)    == [t |-> "str", v |-> s]
Num(n)    == [t |-> "num", v |-> n]
Obj(ps)   == [t |-> "obj", v |-> ps]
Arr(xs)   == [t |-> "arr", v |-> xs]
KV(k, x)  == [k |-> k, v |-> x]

\* The number NaN, coded as an integer no amount of the model reaches
NaN == -999999

\* a + b and a - b on numbers
Plus(a, b)  == IF a = NaN \/ b = NaN THEN NaN ELSE a + b
Minus(a, b) == IF a = NaN \/ b = NaN THEN NaN ELSE a - b

\* what JSON.stringify followed by JSON.parse makes of a number: NaN is written
\* as null
JSONNumber(n) == IF n = NaN THEN Null ELSE Num(n)

\* The UTF-16 code units the model's keys are written in, in increasing order.
CodeUnits == "-0123456789ABCDEFGHIJKLMNOPQRSTUVWXYZ_abcdefghijklmnopqrstuvwxyz"

CodeOf(ch) == CHOOSE i \in 1..Len(CodeUnits) : SubSeq(CodeUnits, i, i) = ch

\* a < b in the order Array.prototype.sort() uses with no comparator
RECURSIVE StrLess(_, _)
StrLess(a, b) ==
    IF b = "" THEN FALSE
    ELSE IF a = "" THEN TRUE
    ELSE LET ca == CodeOf(SubSeq(a, 1, 1))
             cb == CodeOf(SubSeq(b, 1, 1))
         IN  IF ca # cb THEN ca < cb
             ELSE StrLess(SubSeq(a, 2, Len(a)), SubSeq(b, 2, Len(b)))

\* keys.sort(): insertion of each key into the sorted prefix
RECURSIVE InsertSorted(_, _)
InsertSorted(k, ks) ==
    IF ks = <<>> THEN <<k>>
    ELSE IF StrLess(k, Head(ks)) THEN <<k>> \o ks
    ELSE <<Head(ks)>> \o InsertSorted(k, Tail(ks))

RECURSIVE SortKeys(_)
SortKeys(ks) ==
    IF ks = <<>> THEN <<>> ELSE InsertSorted(Head(ks), SortKeys(Tail(ks)))

\* Object.keys(obj)
ObjectKeys(o) == [i \in 1..Len(o.v) |-> o.v[i].k]

HasKey(o, k) == \E i \in 1..Len(o.v) : o.v[i].k = k

\* obj[k], undefined when the key is absent
Get(o, k) ==
    IF HasKey(o, k) THEN o.v[CHOOSE i \in 1..Len(o.v) : o.v[i].k = k].v
    ELSE Undefined

\* obj[k] = x on a plain object: in place when the key exists, appended otherwise
Put(o, k, x) ==
    IF HasKey(o, k)
    THEN Obj([i \in 1..Len(o.v) |-> IF o.v[i].k = k THEN KV(k, x) ELSE o.v[i]])
    ELSE Obj(Append(o.v, KV(k, x)))

\* Array.prototype.join(",")
RECURSIVE JoinComma(_)
JoinComma(ss) ==
    IF ss = <<>> THEN ""
    ELSE IF Len(ss) = 1 THEN ss[1]
    ELSE ss[1] \o "," \o JoinComma(Tail(ss))

\* JSON.stringify of a string (the model's strings need no escaping)
Quote(s) == "\"" \o s \o "\""

\* JSON.stringify of a primitive that is not an object
StringifyPrimitive(x) ==
    CASE x.t = "str"  -> Quote(x.v)
      [] x.t = "num"  -> ToString(x.v)
      [] x.t = "bool" -> IF x.v THEN "true" ELSE "false"

\* stableStringify with the fault of leaving the keys in insertion order
RECURSIVE stableStringify_Unsorted(_)
stableStringify_Unsorted(x) ==
    IF x.t \in {"null", "undef"} THEN "null"
    ELSE IF x.t \notin {"obj", "arr"} THEN StringifyPrimitive(x)
    ELSE IF x.t = "arr"
    THEN "[" \o JoinComma([i \in 1..Len(x.v) |-> stableStringify_Unsorted(x.v[i])]) \o "]"
    ELSE LET keys == ObjectKeys(x)
         IN  "{" \o JoinComma([i \in 1..Len(keys) |->
                     Quote(keys[i]) \o ":" \o stableStringify_Unsorted(Get(x, keys[i]))]) \o "}"

\* stableStringify(obj)
RECURSIVE stableStringify(_)
stableStringify(x) ==
    IF x.t \in {"null", "undef"} THEN "null"
    ELSE IF x.t \notin {"obj", "arr"} THEN StringifyPrimitive(x)
    ELSE IF x.t = "arr"
    THEN "[" \o JoinComma([i \in 1..Len(x.v) |-> stableStringify(x.v[i])]) \o "]"
    ELSE LET sorted == SortKeys(ObjectKeys(x))
         IN  "{" \o JoinComma([i \in 1..Len(sorted) |->
                     Quote(sorted[i]) \o ":" \o stableStringify(Get(x, sorted[i]))]) \o "}"

sha256(input) == "sha256(" \o input \o ")"

\* s contains sub (String.prototype.includes)
Includes(s, sub) ==
    \E i \in 1..(Len(s) - Len(sub) + 1) : SubSeq(s, i, i + Len(sub) - 1) = sub

---------------------------------------------------------------------------
(* Receipt ledger: ReceiptChain *)

GENESIS_HASH == "0000000000000000000000000000000000000000000000000000000000000000"

\* the preimage of a receipt hash
HashInput(receiptId, ctx, requestHash, responseHash, previousReceiptHash) ==
    receiptId \o "||" \o ctx \o "||" \o requestHash \o "||" \o responseHash
        \o "||" \o previousReceiptHash

\* PreviousReceiptHash with the fault of linking to the receipt before the last
PreviousReceiptHash_Stale(rs) ==
    IF Len(rs) > 1 THEN rs[Len(rs) - 1].receiptHash ELSE GENESIS_HASH

PreviousReceiptHash(rs) ==
    IF Len(rs) > 0 THEN rs[Len(rs)].receiptHash ELSE GENESIS_HASH

\* the receipt mint() builds
NewReceipt(rs, ctx, receiptId, timestamp, providerId, cost, requestBody, responseBody) ==
    LET requestHash  == sha256(stableStringify(requestBody))
        responseHash == sha256(stableStringify(responseBody))
        previousReceiptHash == PreviousReceiptHash(rs)
    IN  [receiptId |-> receiptId,
         contextId |-> ctx,
         providerId |-> providerId,
         timestamp |-> timestamp,
         cost |-> cost,
         requestHash |-> requestHash,
         responseHash |-> responseHash,
         previousReceiptHash |-> previousReceiptHash,
         receiptHash |-> sha256(HashInput(receiptId, ctx, requestHash,
                                          responseHash, previousReceiptHash))]

\* ExpectedHash with the fault of hashing the request and response hashes swapped
ExpectedHash_Swapped(r) ==
    sha256(HashInput(r.receiptId, r.contextId, r.responseHash, r.requestHash,
                     r.previousReceiptHash))

\* the hash verify() recomputes for a stored receipt
ExpectedHash(r) ==
    sha256(HashInput(r.receiptId, r.contextId, r.requestHash, r.responseHash,
                     r.previousReceiptHash))

\* VerifyFrom with the fault of reporting the last broken link, not the first
VerifyFrom_LastBroken(rs, i) ==
    LET broken == {j \in i..Len(rs) :
                      \/ rs[j].previousReceiptHash #
                            (IF j = 1 THEN GENESIS_HASH ELSE rs[j - 1].receiptHash)
                      \/ rs[j].receiptHash # ExpectedHash(rs[j])}
    IN  IF broken = {} THEN [valid |-> TRUE]
        ELSE [valid |-> FALSE,
              brokenAt |-> (CHOOSE j \in broken : \A m \in broken : m <= j) - 1,
              reason |-> "hash mismatch"]

\* verify(): the loop from (1-based) position i on; brokenAt is 0-based as in the code
RECURSIVE VerifyFrom(_, _)
VerifyFrom(rs, i) ==
    IF i > Len(rs) THEN [valid |-> TRUE]
    ELSE LET expectedPrev == IF i = 1 THEN GENESIS_HASH ELSE rs[i - 1].receiptHash
         IN  IF rs[i].previousReceiptHash # expectedPrev
             THEN [valid |-> FALSE, brokenAt |-> i - 1, reason |-> "wrong previousReceiptHash"]
             ELSE IF rs[i].receiptHash # ExpectedHash(rs[i])
             THEN [valid |-> FALSE, brokenAt |-> i - 1, reason |-> "hash mismatch"]
             ELSE VerifyFrom(rs, i + 1)

verify(rs) == VerifyFrom(rs, 1)

\* getRecent(n): receipts.slice(-n)
getRecent(rs, n) ==
    IF n = 0 THEN rs
    ELSE IF n >= Len(rs) THEN rs
    ELSE SubSeq(rs, Len(rs) - n + 1, Len(rs))

\* writeFileSync(path, json, "utf-8") passes no mode: the file is opened with
\* the default 0o666, of which a file it creates keeps what the umask of the
\* process leaves
DefaultMode == {"ur", "uw", "gr", "gw", "or", "ow"}

\* persist(): what JSON.stringify writes to the receipts file
LedgerFileOf(ctx, rs) ==
    [kind |-> "json", contextId |-> ctx, receipts |-> rs, mode |-> DefaultMode]

MissingFile == [kind |-> "missing"]

\* a file whose content JSON.parse() rejects
CorruptFile == [kind |-> "text"]

\* a file whose content is the JSON text null
NullFile == [kind |-> "value", value |-> Null]

\* the constructor followed by load(): fresh is the randomUUID() of the constructor
LoadedContextId(file, fresh) ==
    IF file.kind = "json" /\ file.contextId # "" THEN file.contextId ELSE fresh

LoadedReceipts(file) ==
    IF file.kind = "json" THEN file.receipts ELSE <<>>

\* summary(): the totals over the chain
RECURSIVE TotalCost(_)
TotalCost(rs) == IF rs = <<>> THEN 0 ELSE rs[1].cost + TotalCost(Tail(rs))

ReceiptsOf(rs, p) == SelectSeq(rs, LAMBDA r : r.providerId = p)

summary(rs, ctx) ==
    [totalReceipts |-> Len(rs),
     totalCost |-> TotalCost(rs),
     byProvider |-> [p \in {rs[i].providerId : i \in 1..Len(rs)} |->
                        [count |-> Len(ReceiptsOf(rs, p)),
                         cost |-> TotalCost(ReceiptsOf(rs, p))]],
     chainValid |-> verify(rs).valid,
     contextId |-> ctx]

---------------------------------------------------------------------------
(* Inputs of the ledger operations *)

UUIDs == {"uuid-1", "uuid-2"}
\* randomUUID() within a call(): the n-th id drawn, unlike those drawn before it
UUIDAt(n) == "uuid-" \o ToString(n)
ContextIds == {"ctx-a", "ctx-b"}
Timestamps == {"2026-01-01T00:00:00.000Z"}

RequestDescriptor(method, path, queryParams, bodyHash) ==
    Obj(<<KV("method", Str(method)), KV("path", Str(path)),
          KV("queryParams", queryParams), KV("bodyHash", Str(bodyHash))>>)

UsageResponse(n) == Obj(<<KV("usage", Obj(<<KV("total_tokens", Num(n))>>))>>)

MintInputs ==
    { [providerId |-> "openai", cost |-> 6000,
       requestBody |-> RequestDescriptor("POST", "/chat/completions", Undefined, "present"),
       responseBody |-> UsageResponse(2000)],
      [providerId |-> "perplexity", cost |-> 0,
       requestBody |-> Obj(<<KV("b", Num(1)), KV("a", Num(2))>>),
       responseBody |-> Str("ok")] }

NoTamper == [index |-> -1, field |-> "none"]

ReceiptStringFields ==
    {"receiptId", "contextId", "providerId", "timestamp", "requestHash",
     "responseHash", "previousReceiptHash", "receiptHash"}

ReceiptFields == ReceiptStringFields \cup {"cost"}

\* the values an altered field may take
TamperValues(receipt, field) ==
    IF field = "cost" THEN {receipt.cost + 1}
    ELSE IF field = "previousReceiptHash" THEN {"tampered", GENESIS_HASH} \ {receipt[field]}
    ELSE {"tampered"}

NoReturn == [op |-> "none"]

---------------------------------------------------------------------------
(* Operations of the ledger *)

\* mint with the fault of putting the receipt at the front of the chain
\* (unshift for push)
Mint_Unshifts(in, receiptId, timestamp) ==
    /\ Len(receipts) < MaxReceipts
    /\ LET receipt == NewReceipt(receipts, contextId, receiptId, timestamp,
                                 in.providerId, in.cost, in.requestBody, in.responseBody)
       IN  /\ receipts' = <<receipt>> \o receipts
           /\ receiptsFile' = LedgerFileOf(contextId, receipts')
           /\ ret' = [op |-> "mint", value |-> receipt]
    /\ UNCHANGED <<contextId, tamper, vaultVars, walletVars, callVars>>

\* mint(providerId, cost, requestBody, responseBody): push, persist, return
Mint(in, receiptId, timestamp) ==
    /\ Len(receipts) < MaxReceipts
    /\ LET receipt == NewReceipt(receipts, contextId, receiptId, timestamp,
                                 in.providerId, in.cost, in.requestBody, in.responseBody)
       IN  /\ receipts' = Append(receipts, receipt)
           /\ receiptsFile' = LedgerFileOf(contextId, receipts')
           /\ ret' = [op |-> "mint", value |-> receipt]
    /\ UNCHANGED <<contextId, tamper, vaultVars, walletVars, callVars>>

GetChain ==
    /\ ret' = [op |-> "getChain", value |-> receipts]
    /\ UNCHANGED <<ledgerVars, vaultVars, walletVars, callVars>>

GetRecent(n) ==
    /\ ret' = [op |-> "getRecent", n |-> n, value |-> getRecent(receipts, n)]
    /\ UNCHANGED <<ledgerVars, vaultVars, walletVars, callVars>>

VerifyChain ==
    /\ ret' = [op |-> "verify", value |-> verify(receipts)]
    /\ UNCHANGED <<ledgerVars, vaultVars, walletVars, callVars>>

Summary ==
    /\ ret' = [op |-> "summary", value |-> summary(receipts, contextId)]
    /\ UNCHANGED <<ledgerVars, vaultVars, walletVars, callVars>>

\* new ReceiptChain(receiptsPath) over the file as it is: constructor, then load()
ReloadLedger(fresh) ==
    /\ contextId' = LoadedContextId(receiptsFile, fresh)
    /\ receipts' = LoadedReceipts(receiptsFile)
    /\ ret' = [op |-> "load"]
    /\ UNCHANGED <<receiptsFile, tamper, vaultVars, walletVars, callVars>>

\* One field of the receipt at (0-based) index k is altered in the file, no hash
\* is recomputed, and a new ReceiptChain is constructed over the file.
TamperAndReload(k, field, fresh) ==
    /\ tamper = NoTamper
    /\ receiptsFile.kind = "json"
    /\ k + 1 \in 1..Len(receiptsFile.receipts)
    /\ \E value \in TamperValues(receiptsFile.receipts[k + 1], field) :
          receiptsFile' = [receiptsFile EXCEPT !.receipts[k + 1][field] = value]
    /\ tamper' = [index |-> k, field |-> field]
    /\ contextId' = LoadedContextId(receiptsFile', fresh)
    /\ receipts' = LoadedReceipts(receiptsFile')
    /\ ret' = [op |-> "load"]
    /\ UNCHANGED <<vaultVars, walletVars, callVars>>

\* JSON values that differ in the order of their keys, at the top and nested
\* in objects and arrays, next to values that differ in content
CanonValues ==
    { Obj(<<KV("a", Num(1)), KV("b", Str("x"))>>),
      Obj(<<KV("b", Str("x")), KV("a", Num(1))>>),
      Obj(<<KV("a", Str("x")), KV("b", Num(1))>>),
      RequestDescriptor("GET", "/s", Obj(<<KV("q", Str("x")), KV("page", Num(2))>>),
                        "absent"),
      RequestDescriptor("GET", "/s", Obj(<<KV("page", Num(2)), KV("q", Str("x"))>>),
                        "absent"),
      Obj(<<KV("bodyHash", Str("absent")),
            KV("queryParams", Obj(<<KV("page", Num(2)), KV("q", Str("x"))>>)),
            KV("path", Str("/s")), KV("method", Str("GET"))>>),
      Arr(<<Obj(<<KV("a", Num(1)), KV("b", Num(2))>>), Num(3)>>),
      Arr(<<Obj(<<KV("b", Num(2)), KV("a", Num(1))>>), Num(3)>>),
      Arr(<<Num(3), Obj(<<KV("a", Num(1)), KV("b", Num(2))>>)>>),
      Obj(<<KV("B", Num(1)), KV("a", Num(2)), KV("_", Null)>>),
      Obj(<<KV("_", Null), KV("a", Num(2)), KV("B", Num(1))>>),
      Obj(<<KV("x", Obj(<<KV("y", Obj(<<KV("a", Num(1)), KV("b", Num(2))>>))>>))>>),
      Obj(<<KV("x", Obj(<<KV("y", Obj(<<KV("b", Num(2)), KV("a", Num(1))>>))>>))>>),
      Str("ok") }

\* mint(providerId, cost, body, body), the bodies minted so far kept with the
\* returned receipt
MintBody(body, receiptId, timestamp) ==
    /\ Len(receipts) < MaxReceipts
    /\ LET receipt == NewReceipt(receipts, contextId, receiptId, timestamp,
                                 "openai", 0, body, body)
       IN  /\ receipts' = Append(receipts, receipt)
           /\ receiptsFile' = LedgerFileOf(contextId, receipts')
           /\ ret' = [op |-> "mintBody", value |-> receipt,
                      bodies |-> IF ret.op = "mintBody" THEN Append(ret.bodies, body)
                                 ELSE <<body>>]
    /\ UNCHANGED <<contextId, tamper, vaultVars, walletVars, callVars>>

---------------------------------------------------------------------------
(* JavaScript Map: entries [k, v] in insertion order, keys distinct *)

MapHas(m, k) == \E i \in 1..Len(m) : m[i].k = k

\* Map.prototype.get; the caller tests MapHas first where the code tests undefined
MapGet(m, k) == m[CHOOSE i \in 1..Len(m) : m[i].k = k].v

\* Map.prototype.set with the fault of adding an entry even when the key exists
MapSet_Append(m, k, x) == Append(m, KV(k, x))

\* Map.prototype.set: an existing key keeps its position
MapSet(m, k, x) ==
    IF MapHas(m, k)
    THEN [i \in 1..Len(m) |-> IF m[i].k = k THEN KV(k, x) ELSE m[i]]
    ELSE Append(m, KV(k, x))

\* Map.prototype.delete
MapDelete(m, k) == SelectSeq(m, LAMBDA e : e.k # k)

\* Array.from(map.values())
MapValues(m) == [i \in 1..Len(m) |-> m[i].v]

---------------------------------------------------------------------------
(* Vault *)

\* String.prototype.slice(-4)
SliceLast4(s) == IF Len(s) <= 4 THEN s ELSE SubSeq(s, Len(s) - 3, Len(s))

\* toSafeEntry(record)
toSafeEntry(record) ==
    [providerId |-> record.providerId,
     storedAt |-> record.storedAt,
     fingerprint |-> SliceLast4(record.credential),
     active |-> record.active]

\* has(providerId)
has(recs, providerId) ==
    MapHas(recs, providerId) /\ MapGet(recs, providerId).active

\* persist(): the array of records
VaultFileOf(recs) == [kind |-> "json", records |-> MapValues(recs), mode |-> DefaultMode]

\* load(): records.set(record.providerId, record) for each record of the array
RECURSIVE SetEach(_, _)
SetEach(m, rs) ==
    IF rs = <<>> THEN m ELSE SetEach(MapSet(m, Head(rs).providerId, Head(rs)), Tail(rs))

LoadedRecords(file) ==
    IF file.kind = "json" THEN SetEach(<<>>, file.records) ELSE <<>>

VaultProviderIds == {"openai", "acme"}
Credentials == {"k", "abcd", "abcde", "sk-test-ABCDWXYZ"}

\* store(providerId, credential): set, persist, return the safe entry
Store(providerId, credential, storedAt) ==
    /\ LET record == [providerId |-> providerId, credential |-> credential,
                      storedAt |-> storedAt, active |-> TRUE]
       IN  /\ records' = MapSet(records, providerId, record)
           /\ vaultFile' = VaultFileOf(records')
           /\ ret' = [op |-> "store", providerId |-> providerId,
                      credential |-> credential, value |-> <<toSafeEntry(record)>>]
    /\ UNCHANGED <<ledgerVars, walletVars, callVars>>

\* remove(providerId): persist only when a record was deleted
Remove(providerId) ==
    /\ LET deleted == MapHas(records, providerId)
       IN  /\ records' = MapDelete(records, providerId)
           /\ vaultFile' = IF deleted THEN VaultFileOf(records') ELSE vaultFile
           /\ ret' = [op |-> "remove", providerId |-> providerId, value |-> deleted]
    /\ UNCHANGED <<ledgerVars, walletVars, callVars>>

\* list()
List ==
    /\ ret' = [op |-> "list",
               value |-> [i \in 1..Len(records) |-> toSafeEntry(records[i].v)]]
    /\ UNCHANGED <<ledgerVars, vaultVars, walletVars, callVars>>

\* has(providerId)
Has(providerId) ==
    /\ ret' = [op |-> "has", providerId |-> providerId, value |-> has(records, providerId)]
    /\ UNCHANGED <<ledgerVars, vaultVars, walletVars, callVars>>

\* new Vault(vaultPath) over the file as it is: constructor, then load()
ReloadVault ==
    /\ records' = LoadedRecords(vaultFile)
    /\ ret' = [op |-> "loadVault"]
    /\ UNCHANGED <<vaultFile, ledgerVars, walletVars, callVars>>

---------------------------------------------------------------------------
(* Wallet *)

Budgets == {0, 2, 5}
Amounts == 0..3
WalletProviderIds == {"openai", "perplexity"}

\* byProvider[providerId] ?? 0
SpendOf(byProvider, providerId) ==
    IF providerId \in DOMAIN byProvider THEN byProvider[providerId] ELSE 0

\* the sum of the values of byProvider
RECURSIVE SumOf(_)
SumOf(byProvider) ==
    IF DOMAIN byProvider = {} THEN 0
    ELSE LET p == CHOOSE q \in DOMAIN byProvider : TRUE
         IN  byProvider[p] + SumOf([q \in DOMAIN byProvider \ {p} |-> byProvider[q]])

EmptyObject == [p \in {} |-> 0]

\* getState()
getState(d) ==
    [totalBudget |-> d.totalBudget,
     spent |-> d.spent,
     remaining |-> Minus(d.totalBudget, d.spent),
     byProvider |-> d.byProvider]

\* checkBudget with the fault of denying a cost equal to the remaining budget
checkBudget_Strict(d, providerId, estimatedCost) ==
    LET remaining == d.totalBudget - d.spent
    IN  IF estimatedCost >= remaining
        THEN [allowed |-> FALSE, reason |-> "Insufficient budget",
              estimatedCost |-> estimatedCost,
              remainingAfter |-> remaining - estimatedCost]
        ELSE [allowed |-> TRUE, estimatedCost |-> estimatedCost,
              remainingAfter |-> remaining - estimatedCost]

\* checkBudget(providerId, estimatedCost)
checkBudget(d, providerId, estimatedCost) ==
    LET remaining == d.totalBudget - d.spent
    IN  IF estimatedCost > remaining
        THEN [allowed |-> FALSE, reason |-> "Insufficient budget",
              estimatedCost |-> estimatedCost,
              remainingAfter |-> remaining - estimatedCost]
        ELSE [allowed |-> TRUE, estimatedCost |-> estimatedCost,
              remainingAfter |-> remaining - estimatedCost]

\* recordSpend with the fault of not adding to the total
recordSpend_ByProviderOnly(d, providerId, cost) ==
    [d EXCEPT !.byProvider =
        [q \in DOMAIN d.byProvider \cup {providerId} |->
            IF q = providerId THEN SpendOf(d.byProvider, providerId) + cost
            ELSE d.byProvider[q]]]

\* the wallet data after recordSpend(providerId, cost)
recordSpend(d, providerId, cost) ==
    [d EXCEPT !.spent = Plus(d.spent, cost),
              !.byProvider =
        [q \in DOMAIN d.byProvider \cup {providerId} |->
            IF q = providerId THEN Plus(SpendOf(d.byProvider, providerId), cost)
            ELSE d.byProvider[q]]]

\* persist(): what JSON.parse reads back from the JSON.stringify(this.data)
\* written to the wallet file
WalletFileOf(d) ==
    [kind |-> "json",
     data |-> [totalBudget |-> JSONNumber(d.totalBudget),
               spent |-> JSONNumber(d.spent),
               byProvider |-> [p \in DOMAIN d.byProvider |-> JSONNumber(d.byProvider[p])],
               createdAt |-> d.createdAt],
     mode |-> DefaultMode]

\* this.data as the values it holds
WalletValue(d) ==
    [totalBudget |-> Num(d.totalBudget),
     spent |-> Num(d.spent),
     byProvider |-> [p \in DOMAIN d.byProvider |-> Num(d.byProvider[p])],
     createdAt |-> d.createdAt]

\* load(defaultBudget): the parsed file when there is one, a new wallet otherwise
LoadedWallet(file, defaultBudget, createdAt) ==
    IF file.kind = "json" THEN file.data
    ELSE IF file.kind = "value" THEN file.value
    ELSE [totalBudget |-> Num(defaultBudget), spent |-> Num(0),
          byProvider |-> EmptyObject, createdAt |-> createdAt]

\* recordSpend(providerId, cost): add, persist, return the remaining budget
RecordSpend(providerId, cost) ==
    /\ Plus(data.spent, cost) <= MaxSpent
    /\ data' = recordSpend(data, providerId, cost)
    /\ walletFile' = WalletFileOf(data')
    /\ ret' = [op |-> "recordSpend", providerId |-> providerId, cost |-> cost,
               value |-> Minus(data'.totalBudget, data'.spent)]
    /\ UNCHANGED <<ledgerVars, vaultVars, callVars>>

\* setBudget with the fault of starting the spend tracking anew
SetBudget_ResetsSpend(microdollars) ==
    /\ data' = [data EXCEPT !.totalBudget = microdollars, !.spent = 0,
                            !.byProvider = EmptyObject]
    /\ walletFile' = WalletFileOf(data')
    /\ ret' = [op |-> "setBudget", value |-> getState(data')]
    /\ UNCHANGED <<ledgerVars, vaultVars, callVars>>

\* setBudget(microdollars)
SetBudget(microdollars) ==
    /\ data' = [data EXCEPT !.totalBudget = microdollars]
    /\ walletFile' = WalletFileOf(data')
    /\ ret' = [op |-> "setBudget", value |-> getState(data')]
    /\ UNCHANGED <<ledgerVars, vaultVars, callVars>>

\* resetSpend()
ResetSpend ==
    /\ data' = [data EXCEPT !.spent = 0, !.byProvider = EmptyObject]
    /\ walletFile' = WalletFileOf(data')
    /\ ret' = [op |-> "resetSpend", value |-> getState(data')]
    /\ UNCHANGED <<ledgerVars, vaultVars, callVars>>

\* checkBudget(providerId, estimatedCost)
CheckBudget(providerId, estimatedCost) ==
    /\ ret' = [op |-> "checkBudget", providerId |-> providerId,
               estimatedCost |-> estimatedCost,
               value |-> checkBudget(data, providerId, estimatedCost)]
    /\ UNCHANGED <<ledgerVars, vaultVars, walletVars, callVars>>

\* getState()
GetState ==
    /\ ret' = [op |-> "getState", value |-> getState(data)]
    /\ UNCHANGED <<ledgerVars, vaultVars, walletVars, callVars>>

\* this.data = this.load(budgetMicrodollars): whatever load() returned, the
\* numbers of a parsed wallet as the numbers they are
WalletData(v) ==
    IF v = Null THEN Null
    ELSE [totalBudget |-> v.totalBudget.v,
          spent |-> v.spent.v,
          byProvider |-> [p \in DOMAIN v.byProvider |-> v.byProvider[p].v],
          createdAt |-> v.createdAt]

\* new Wallet(walletPath, budgetMicrodollars) over the file as it is
ReloadWallet(budgetMicrodollars, createdAt) ==
    /\ data' = WalletData(LoadedWallet(walletFile, budgetMicrodollars, createdAt))
    /\ ret' = [op |-> "loadWallet"]
    /\ UNCHANGED <<walletFile, ledgerVars, vaultVars, callVars>>

\* Every method of the wallet reads or writes a property of this.data first:
\* over this.data = null it throws a TypeError.
WalletThrows ==
    /\ data = Null
    /\ ret' = [op |-> "wallet", threw |-> "TypeError"]
    /\ UNCHANGED <<ledgerVars, vaultVars, walletVars, callVars>>

---------------------------------------------------------------------------
(* Provider registry *)

Provider(id, name, baseUrl, authMethod, authField, authPrefix, costPerUnit, costUnit) ==
    [id |-> id, name |-> name, baseUrl |-> baseUrl, authMethod |-> authMethod,
     authField |-> authField, authPrefix |-> authPrefix,
     costPerUnit |-> costPerUnit, costUnit |-> costUnit]

DEFAULT_PROVIDERS ==
    << Provider("openai", "OpenAI", "https://api.openai.com/v1", "header",
                "Authorization", Str("Bearer "), 3000, "per_1k_tokens"),
       Provider("anthropic", "Anthropic", "https://api.anthropic.com/v1", "header",
                "x-api-key", Undefined, 3000, "per_1k_tokens"),
       Provider("groq", "Groq", "https://api.groq.com/openai/v1", "header",
                "Authorization", Str("Bearer "), 500, "per_1k_tokens"),
       Provider("together", "Together AI", "https://api.together.xyz/v1", "header",
                "Authorization", Str("Bearer "), 2000, "per_1k_tokens"),
       Provider("fireworks", "Fireworks AI", "https://api.fireworks.ai/inference/v1",
                "header", "Authorization", Str("Bearer "), 2000, "per_1k_tokens"),
       Provider("perplexity", "Perplexity", "https://api.perplexity.ai", "header",
                "Authorization", Str("Bearer "), 1000, "per_request") >>

\* the providers registered on top of the defaults
CustomProviders ==
    << Provider("acme-query", "Acme Search", "https://api.acme.test/", "query",
                "api_key", Undefined, 500, "per_request"),
       Provider("acme-body", "Acme Ask", "https://ask.acme.test", "body",
                "key", Undefined, 40, "per_1k_chars") >>

\* new ProviderRegistry(customProviders): defaults first, then override/add
RECURSIVE SetAll(_, _)
SetAll(m, ps) ==
    IF ps = <<>> THEN m ELSE SetAll(MapSet(m, ps[1].id, ps[1]), Tail(ps))

NewRegistry(customProviders) == SetAll(SetAll(<<>>, DEFAULT_PROVIDERS), customProviders)

\* JSON.stringify(value) of a value that is not undefined
RECURSIVE JSONStringify(_)
JSONStringify(x) ==
    IF x.t = "null" THEN "null"
    ELSE IF x.t \notin {"obj", "arr"} THEN StringifyPrimitive(x)
    ELSE IF x.t = "arr"
    THEN "[" \o JoinComma([i \in 1..Len(x.v) |->
                 IF x.v[i].t = "undef" THEN "null" ELSE JSONStringify(x.v[i])]) \o "]"
    ELSE LET kept == SelectSeq(x.v, LAMBDA e : e.v.t # "undef")
         IN  "{" \o JoinComma([i \in 1..Len(kept) |->
                     Quote(kept[i].k) \o ":" \o JSONStringify(kept[i].v)]) \o "}"

\* Math.ceil((n / 1000) * costPerUnit) for integers, in exact arithmetic, and
\* for NaN
CeilPer1k(n, costPerUnit) ==
    IF n = NaN THEN NaN ELSE (n * costPerUnit + 999) \div 1000

\* Math.ceil(n / 4)
CeilDiv4(n) == (n + 3) \div 4

\* typeof requestBody === "string" ? requestBody : JSON.stringify(requestBody ?? "")
BodyString(requestBody) ==
    IF requestBody.t = "str" THEN requestBody.v
    ELSE IF requestBody.t \in {"undef", "null"} THEN JSONStringify(Str(""))
    ELSE JSONStringify(requestBody)

\* estimateCost(providerId, requestBody)
estimateCost(reg, providerId, requestBody) ==
    IF ~MapHas(reg, providerId) THEN 0
    ELSE LET provider == MapGet(reg, providerId)
         IN  CASE provider.costUnit = "per_request" -> provider.costPerUnit
               [] provider.costUnit = "per_1k_tokens" ->
                    CeilPer1k(CeilDiv4(Len(BodyString(requestBody))), provider.costPerUnit)
               [] provider.costUnit = "per_1k_chars" ->
                    CeilPer1k(Len(BodyString(requestBody)), provider.costPerUnit)
               [] OTHER -> provider.costPerUnit

---------------------------------------------------------------------------
(* The call pipeline: ApiProxy.call *)

Unset == [t |-> "unset"]

CallIds == 1..MaxCalls

\* truthiness of a JavaScript value
Truthy(x) ==
    CASE x.t \in {"undef", "null"} -> FALSE
      [] x.t = "bool" -> x.v
      [] x.t = "num" -> x.v # 0
      [] x.t = "str" -> x.v # ""
      [] OTHER -> TRUE

\* typeof x === "object" (null included, as in JavaScript)
TypeofObject(x) == x.t \in {"obj", "arr", "null"}

\* { ...x }: the own enumerable properties of x, as a new object
Spread(x) ==
    CASE x.t = "obj" -> x
      [] x.t = "arr" -> Obj([i \in 1..Len(x.v) |-> KV(ToString(i - 1), x.v[i])])
      [] OTHER -> Obj(<<>>)

\* { ...a, ...b } for objects a and b
RECURSIVE PutAll(_, _)
PutAll(o, ps) == IF ps = <<>> THEN o ELSE PutAll(Put(o, ps[1].k, ps[1].v), Tail(ps))

Merge(a, b) == PutAll(a, b.v)

\* The objects a call() can reach: the caller's (request.*) and its own locals.
Refs == {"request.headers", "request.queryParams", "request.body",
         "headers", "queryParams", "body"}

\* let headers = { "Content-Type": "application/json", ...(request.headers ?? {}) }
HeadersRef(f) == "headers"

\* QueryParamsRef with the fault of using the caller's object instead of a copy
QueryParamsRef_Alias(f) ==
    IF f.heap["request.queryParams"].t = "undef" THEN "queryParams"
    ELSE "request.queryParams"

\* let queryParams = { ...(request.queryParams ?? {}) }: a fresh object
QueryParamsRef(f) == "queryParams"

\* injectAuth(providerId, provider, headers, queryParams): the heap after it wrote
\* the credential into the object the provider's authMethod names
injectAuth(heap, recs, providerId, provider, headersRef, queryParamsRef) ==
    LET record == MapGet(recs, providerId)
        prefix == IF provider.authPrefix.t = "undef" THEN "" ELSE provider.authPrefix.v
        value  == Str(prefix \o record.credential)
    IN  CASE provider.authMethod = "header" ->
                [heap EXCEPT ![headersRef] = Put(@, provider.authField, value)]
          [] provider.authMethod = "query" ->
                [heap EXCEPT ![queryParamsRef] = Put(@, provider.authField, value)]
          [] provider.authMethod = "body" -> heap

\* getCredentialForBodyInjection with the fault of returning the fingerprint
getCredentialForBodyInjection_Masked(recs, providerId) ==
    SliceLast4(MapGet(recs, providerId).credential)

\* getCredentialForBodyInjection(providerId)
getCredentialForBodyInjection(recs, providerId) == MapGet(recs, providerId).credential

\* vault.injectAuth(providerId, provider, headers, queryParams) called on its
\* own: it throws a plain Error, before it touches the two objects, when the
\* vault has no active record for the provider
InjectAuth(providerId, provider, headers, queryParams) ==
    /\ LET heap == [r \in Refs |-> IF r = "headers" THEN headers
                                   ELSE IF r = "queryParams" THEN queryParams
                                   ELSE Undefined]
           record == IF MapHas(records, providerId)
                     THEN MapGet(records, providerId) ELSE Undefined
       IN  IF record = Undefined \/ ~record.active
           THEN ret' = [op |-> "injectAuth", providerId |-> providerId,
                        supplied |-> <<headers, queryParams>>,
                        threw |-> [name |-> "Error", code |-> ""],
                        headers |-> heap["headers"],
                        queryParams |-> heap["queryParams"]]
           ELSE LET after == injectAuth(heap, records, providerId, provider,
                                        "headers", "queryParams")
                IN  ret' = [op |-> "injectAuth", providerId |-> providerId,
                            supplied |-> <<headers, queryParams>>,
                            headers |-> after["headers"],
                            queryParams |-> after["queryParams"]]
    /\ UNCHANGED <<ledgerVars, vaultVars, walletVars, callVars>>

\* vault.getCredentialForBodyInjection(providerId) called on its own
GetCredentialForBodyInjection(providerId) ==
    /\ LET record == IF MapHas(records, providerId)
                     THEN MapGet(records, providerId) ELSE Undefined
       IN  IF record = Undefined \/ ~record.active
           THEN ret' = [op |-> "getCredentialForBodyInjection",
                        providerId |-> providerId,
                        threw |-> [name |-> "Error", code |-> ""]]
           ELSE ret' = [op |-> "getCredentialForBodyInjection",
                        providerId |-> providerId,
                        value |-> getCredentialForBodyInjection(records, providerId)]
    /\ UNCHANGED <<ledgerVars, vaultVars, walletVars, callVars>>

\* String.prototype.endsWith("/") and startsWith("/")
EndsWithSlash(s) == Len(s) > 0 /\ SubSeq(s, Len(s), Len(s)) = "/"
StartsWithSlash(s) == Len(s) > 0 /\ SubSeq(s, 1, 1) = "/"

\* url.searchParams.set(key, value) for each entry, rendered by url.toString()
RECURSIVE QueryString(_)
QueryString(ps) ==
    IF ps = <<>> THEN ""
    ELSE ps[1].k \o "=" \o ps[1].v.v
         \o (IF Len(ps) > 1 THEN "&" \o QueryString(Tail(ps)) ELSE "")

\* buildUrl(provider, path, queryParams)
buildUrl(provider, path, queryParams) ==
    LET base == IF EndsWithSlash(provider.baseUrl)
                THEN SubSeq(provider.baseUrl, 1, Len(provider.baseUrl) - 1)
                ELSE provider.baseUrl
        cleanPath == IF StartsWithSlash(path) THEN path ELSE "/" \o path
    IN  base \o cleanPath
            \o (IF queryParams.v = <<>> THEN "" ELSE "?" \o QueryString(queryParams.v))

\* The number a string of decimal digits denotes ("" denotes 0)
RECURSIVE ParseDigits(_)
ParseDigits(s) ==
    IF s = "" THEN 0
    ELSE 10 * ParseDigits(SubSeq(s, 1, Len(s) - 1))
         + (CHOOSE d \in 0..9 : SubSeq("0123456789", d + 1, d + 1) = SubSeq(s, Len(s), Len(s)))

IsDigits(s) == \A i \in 1..Len(s) : \E d \in 1..10 : SubSeq("0123456789", d, d) = SubSeq(s, i, i)

\* The coercion "/" applies to its left operand (totalTokens / 1000): numbers as
\* they are, strings of digits parsed, null and false 0, true 1, and NaN for
\* undefined, for a plain object and for the other strings of the model, which
\* hold no digit.
ToNumber(x) ==
    CASE x.t = "num" -> x.v
      [] x.t = "str" /\ IsDigits(x.v) -> ParseDigits(x.v)
      [] x.t = "str" /\ ~IsDigits(x.v) -> NaN
      [] x.t = "null" -> 0
      [] x.t = "bool" -> IF x.v THEN 1 ELSE 0
      [] x.t \in {"undef", "obj"} -> NaN

\* calculateActualCost(provider, requestBody, responseData)
calculateActualCost(reg, provider, requestBody, responseData) ==
    IF /\ Truthy(responseData) /\ TypeofObject(responseData)
       /\ responseData.t = "obj" /\ HasKey(responseData, "usage")
       /\ Truthy(Get(responseData, "usage")) /\ TypeofObject(Get(responseData, "usage"))
       /\ Get(responseData, "usage").t = "obj"
       /\ HasKey(Get(responseData, "usage"), "total_tokens")
       /\ provider.costUnit = "per_1k_tokens"
    THEN LET totalTokens == Get(Get(responseData, "usage"), "total_tokens")
         IN  CeilPer1k(ToNumber(totalTokens), provider.costPerUnit)
    ELSE estimateCost(reg, provider.id, requestBody)

\* A response of the provider: what response.json() and response.text() yield.
\* json is Undefined when the body is not valid JSON.
Response(status, contentType, json, text) ==
    [status |-> status, contentType |-> contentType, json |-> json, text |-> text]

Responses ==
    { Response(200, "application/json; charset=utf-8", UsageResponse(2000),
               JSONStringify(UsageResponse(2000))),
      Response(500, "text/plain", Undefined, "oops"),
      Response(200, "application/json", Undefined, "<html>") }

Request(providerId, method, path, headers, body, queryParams) ==
    [providerId |-> providerId, method |-> method, path |-> path,
     headers |-> headers, body |-> body, queryParams |-> queryParams]

Requests ==
    { Request("openai", "POST", "/chat/completions",
              Obj(<<KV("X-Trace", Str("1"))>>),
              Obj(<<KV("model", Str("m")), KV("messages", Arr(<<>>))>>), Undefined),
      Request("acme-query", "GET", "search", Undefined, Undefined,
              Obj(<<KV("q", Str("x"))>>)),
      Request("acme-body", "POST", "/ask", Undefined,
              Obj(<<KV("q", Str("x"))>>), Undefined),
      Request("perplexity", "POST", "/chat/completions", Undefined,
              Obj(<<KV("model", Str("m"))>>), Undefined),
      Request("nope", "POST", "/x", Undefined, Undefined, Undefined) }

EmptyHeap == [r \in Refs |-> Undefined]

IdleFrame ==
    [pc |-> "IDLE", request |-> Unset, heap |-> EmptyHeap, provider |-> Unset,
     estimatedCost |-> Unset, budgetCheck |-> Unset,
     headers |-> Unset, queryParams |-> Unset, body |-> Unset,
     fetch |-> Unset, response |-> Unset, responseData |-> Unset,
     actualCost |-> Unset, remaining |-> Unset, requestDescriptor |-> Unset,
     receipt |-> Unset, result |-> Unset, error |-> Unset]

\* what a frame holds for the response when fetch() rejected
Rejected == [rejected |-> TRUE]

\* throw: the frame ends with the error and gives up the thread (running = 0)
Throw(c, name, code) ==
    /\ calls' = [calls EXCEPT ![c].pc = "FAILED",
                              ![c].error = [name |-> name, code |-> code]]
    /\ running' = 0

\* call(request) is invoked: the caller's objects are on the heap
StartCall(c, request) ==
    /\ running = 0
    /\ calls[c].pc = "IDLE"
    /\ \A b \in CallIds : b < c => calls[b].pc # "IDLE"
    /\ calls' = [calls EXCEPT ![c] =
          [IdleFrame EXCEPT !.pc = "INIT", !.request = request,
              !.heap = [EmptyHeap EXCEPT !["request.headers"] = request.headers,
                                         !["request.queryParams"] = request.queryParams,
                                         !["request.body"] = request.body]]]
    /\ running' = c
    /\ UNCHANGED <<ledgerVars, vaultVars, walletVars, providers, hlosVars, ret>>

\* 1. Resolve provider
ResolveProvider(c) ==
    /\ running = c
    /\ calls[c].pc = "INIT"
    /\ IF MapHas(providers, calls[c].request.providerId)
       THEN /\ calls' = [calls EXCEPT ![c].pc = "PROVIDER_OK",
                            ![c].provider = MapGet(providers, calls[c].request.providerId)]
            /\ UNCHANGED running
       ELSE Throw(c, "ProxyError", "UNKNOWN_PROVIDER")
    /\ UNCHANGED <<ledgerVars, vaultVars, walletVars, providers, hlosVars, ret>>

\* CheckCredential with the fault of consulting the wallet before the vault
CheckCredential_BudgetFirst(c) ==
    /\ running = c
    /\ calls[c].pc = "PROVIDER_OK"
    /\ LET f == calls[c]
           estimatedCost == estimateCost(providers, f.request.providerId, f.request.body)
       IN  IF ~checkBudget(data, f.request.providerId, estimatedCost).allowed
           THEN Throw(c, "ProxyError", "BUDGET_EXCEEDED")
           ELSE IF has(records, f.request.providerId)
           THEN /\ calls' = [calls EXCEPT ![c].pc = "CRED_OK"]
                /\ UNCHANGED running
           ELSE Throw(c, "ProxyError", "NO_CREDENTIAL")
    /\ UNCHANGED <<ledgerVars, vaultVars, walletVars, providers, hlosVars, ret>>

\* 2. Check credential exists
CheckCredential(c) ==
    /\ running = c
    /\ calls[c].pc = "PROVIDER_OK"
    /\ IF has(records, calls[c].request.providerId)
       THEN /\ calls' = [calls EXCEPT ![c].pc = "CRED_OK"]
            /\ UNCHANGED running
       ELSE Throw(c, "ProxyError", "NO_CREDENTIAL")
    /\ UNCHANGED <<ledgerVars, vaultVars, walletVars, providers, hlosVars, ret>>

\* BudgetGate with the fault of charging the estimate of a denied call
BudgetGate_ChargesDenied(c) ==
    /\ running = c
    /\ calls[c].pc = "CRED_OK"
    /\ LET f == calls[c]
           estimatedCost == estimateCost(providers, f.request.providerId, f.request.body)
           budgetCheck == checkBudget(data, f.request.providerId, estimatedCost)
       IN  IF budgetCheck.allowed
           THEN /\ calls' = [calls EXCEPT ![c].pc = "BUDGET_OK",
                                ![c].estimatedCost = Num(estimatedCost),
                                ![c].budgetCheck = budgetCheck]
                /\ UNCHANGED <<running, walletVars>>
           ELSE /\ calls' = [calls EXCEPT ![c].pc = "FAILED",
                                ![c].estimatedCost = Num(estimatedCost),
                                ![c].budgetCheck = budgetCheck,
                                ![c].error = [name |-> "ProxyError",
                                              code |-> "BUDGET_EXCEEDED"]]
                /\ running' = 0
                /\ data' = recordSpend(data, f.request.providerId, estimatedCost)
                /\ walletFile' = WalletFileOf(data')
    /\ UNCHANGED <<ledgerVars, vaultVars, providers, hlosVars, ret>>

\* 3. Estimate cost and check budget
BudgetGate(c) ==
    /\ running = c
    /\ calls[c].pc = "CRED_OK"
    /\ LET f == calls[c]
           estimatedCost == estimateCost(providers, f.request.providerId, f.request.body)
           budgetCheck == checkBudget(data, f.request.providerId, estimatedCost)
       IN  IF budgetCheck.allowed
           THEN /\ calls' = [calls EXCEPT ![c].pc = "BUDGET_OK",
                                ![c].estimatedCost = Num(estimatedCost),
                                ![c].budgetCheck = budgetCheck]
                /\ UNCHANGED running
           ELSE /\ calls' = [calls EXCEPT ![c].pc = "FAILED",
                                ![c].estimatedCost = Num(estimatedCost),
                                ![c].budgetCheck = budgetCheck,
                                ![c].error = [name |-> "ProxyError",
                                              code |-> "BUDGET_EXCEEDED"]]
                /\ running' = 0
    /\ UNCHANGED <<ledgerVars, vaultVars, walletVars, providers, hlosVars, ret>>

\* The frame after step 4 (build the request with injected credentials) has
\* called fetch(): the outgoing request is in f.fetch.
Composed(f, recs) ==
    LET provider == f.provider
        heap1 == [f.heap EXCEPT
                    !["headers"] = Merge(Obj(<<KV("Content-Type", Str("application/json"))>>),
                                         Spread(f.heap["request.headers"])),
                    !["queryParams"] = Spread(f.heap["request.queryParams"])]
        f1 == [f EXCEPT !.heap = heap1]
        headersRef == HeadersRef(f1)
        queryParamsRef == QueryParamsRef(f1)
        heap2 == injectAuth(heap1, recs, f.request.providerId, provider,
                            headersRef, queryParamsRef)
        bodyInjected == /\ provider.authMethod = "body"
                        /\ Truthy(heap2["request.body"])
                        /\ TypeofObject(heap2["request.body"])
        heap3 == IF bodyInjected
                 THEN [heap2 EXCEPT !["body"] =
                         Put(Spread(heap2["request.body"]), provider.authField,
                             Str(getCredentialForBodyInjection(recs, f.request.providerId)))]
                 ELSE heap2
        bodyRef == IF bodyInjected THEN "body" ELSE "request.body"
        body == heap3[bodyRef]
    IN  [f EXCEPT !.pc = "REQUEST_SENT",
                  !.heap = heap3,
                  !.headers = Str(headersRef),
                  !.queryParams = Str(queryParamsRef),
                  !.body = Str(bodyRef),
                  !.fetch = [url |-> buildUrl(provider, f.request.path, heap3[queryParamsRef]),
                             method |-> f.request.method,
                             headers |-> heap3[headersRef],
                             body |-> IF f.request.method # "GET" /\ Truthy(body)
                                      THEN Str(JSONStringify(body)) ELSE Undefined]]

\* Dispatch with the fault of recording the estimated spend before the request
Dispatch_ChargesFirst(c) ==
    /\ running = c
    /\ calls[c].pc = "BUDGET_OK"
    /\ data' = recordSpend(data, calls[c].request.providerId, calls[c].estimatedCost.v)
    /\ walletFile' = WalletFileOf(data')
    /\ calls' = [calls EXCEPT ![c] =
          [Composed(calls[c], records) EXCEPT
              !.remaining = Num(data'.totalBudget - data'.spent)]]
    /\ running' = 0
    /\ UNCHANGED <<ledgerVars, vaultVars, providers, hlosVars, ret>>

\* 4./5. Build the request, inject the credential and call fetch(): await
Dispatch(c) ==
    /\ running = c
    /\ calls[c].pc = "BUDGET_OK"
    /\ calls' = [calls EXCEPT ![c] = Composed(calls[c], records)]
    /\ running' = 0
    /\ UNCHANGED <<ledgerVars, vaultVars, walletVars, providers, hlosVars, ret>>

\* fetch() resolves with a response; the call reads the content type and awaits
\* response.json() or response.text()
FetchResolves(c, response) ==
    /\ running = 0
    /\ calls[c].pc = "REQUEST_SENT"
    /\ calls' = [calls EXCEPT ![c].pc = "RESPONSE_HEADERS", ![c].response = response]
    /\ UNCHANGED <<ledgerVars, vaultVars, walletVars, providers, hlosVars, running, ret>>

\* FetchRejects with the fault of swallowing the error and going on with no data
FetchRejects_Swallowed(c) ==
    /\ running = 0
    /\ calls[c].pc = "REQUEST_SENT"
    /\ calls' = [calls EXCEPT ![c].pc = "RESPONSE_PARSED",
                              ![c].response = Rejected,
                              ![c].responseData = Null]
    /\ running' = c
    /\ UNCHANGED <<ledgerVars, vaultVars, walletVars, providers, hlosVars, ret>>

\* FetchRejects with the fault of trying the request again
FetchRejects_Retries(c) ==
    /\ running = 0
    /\ calls[c].pc = "REQUEST_SENT"
    /\ calls' = [calls EXCEPT ![c].pc = "BUDGET_OK", ![c].response = Rejected]
    /\ running' = c
    /\ UNCHANGED <<ledgerVars, vaultVars, walletVars, providers, hlosVars, ret>>

\* fetch() rejects (transport failure, abort): catch, throw NETWORK_ERROR
FetchRejects(c) ==
    /\ running = 0
    /\ calls[c].pc = "REQUEST_SENT"
    /\ calls' = [calls EXCEPT ![c].pc = "FAILED",
                              ![c].response = Rejected,
                              ![c].error = [name |-> "ProxyError",
                                            code |-> "NETWORK_ERROR"]]
    /\ UNCHANGED <<ledgerVars, vaultVars, walletVars, providers, hlosVars, running, ret>>

\* BodyRead with the fault of treating an HTTP error status as a failure of call()
BodyRead_ThrowsOnStatus(c) ==
    /\ running = 0
    /\ calls[c].pc = "RESPONSE_HEADERS"
    /\ LET response == calls[c].response
       IN  IF response.status >= 400
           THEN Throw(c, "ProxyError", "HTTP_ERROR")
           ELSE IF Includes(response.contentType, "application/json")
                THEN IF response.json # Undefined
                     THEN /\ calls' = [calls EXCEPT ![c].pc = "RESPONSE_PARSED",
                                                    ![c].responseData = response.json]
                          /\ running' = c
                     ELSE Throw(c, "TypeError", "")
                ELSE /\ calls' = [calls EXCEPT ![c].pc = "RESPONSE_PARSED",
                                               ![c].responseData = Str(response.text)]
                     /\ running' = c
    /\ UNCHANGED <<ledgerVars, vaultVars, walletVars, providers, hlosVars, ret>>

\* 6. Parse response: the awaited body read settles.  response.json() consumes
\* the body, so when it rejects on invalid JSON the response.text() of the catch
\* block rejects too (the body is already used) and the TypeError leaves call().
BodyRead(c) ==
    /\ running = 0
    /\ calls[c].pc = "RESPONSE_HEADERS"
    /\ LET response == calls[c].response
       IN  IF Includes(response.contentType, "application/json")
           THEN IF response.json # Undefined
                THEN /\ calls' = [calls EXCEPT ![c].pc = "RESPONSE_PARSED",
                                               ![c].responseData = response.json]
                     /\ running' = c
                ELSE Throw(c, "TypeError", "")
           ELSE /\ calls' = [calls EXCEPT ![c].pc = "RESPONSE_PARSED",
                                          ![c].responseData = Str(response.text)]
                /\ running' = c
    /\ UNCHANGED <<ledgerVars, vaultVars, walletVars, providers, hlosVars, ret>>

\* the body read fails in transit: response.json() / response.text() rejects
BodyReadFails(c) ==
    /\ running = 0
    /\ calls[c].pc = "RESPONSE_HEADERS"
    /\ Throw(c, "TypeError", "")
    /\ UNCHANGED <<ledgerVars, vaultVars, walletVars, providers, hlosVars, ret>>

\* RecordSpendStep with the fault of giving up the thread between recordSpend
\* and mint (as an await between steps 8 and 9 would)
RecordSpendStep_Yields(c) ==
    /\ running = c
    /\ calls[c].pc = "RESPONSE_PARSED"
    /\ LET f == calls[c]
           actualCost == calculateActualCost(providers, f.provider, f.request.body,
                                             f.responseData)
       IN  /\ data' = recordSpend(data, f.request.providerId, actualCost)
           /\ walletFile' = WalletFileOf(data')
           /\ calls' = [calls EXCEPT ![c].pc = "SPEND_RECORDED",
                                     ![c].actualCost = Num(actualCost),
                                     ![c].remaining = Num(data'.totalBudget - data'.spent)]
    /\ running' = 0
    /\ UNCHANGED <<ledgerVars, vaultVars, providers, hlosVars, ret>>

\* 7./8. Calculate the actual cost and record the spend
RecordSpendStep(c) ==
    /\ running = c
    /\ calls[c].pc = "RESPONSE_PARSED"
    /\ LET f == calls[c]
           actualCost == calculateActualCost(providers, f.provider, f.request.body,
                                             f.responseData)
       IN  /\ data' = recordSpend(data, f.request.providerId, actualCost)
           /\ walletFile' = WalletFileOf(data')
           /\ calls' = [calls EXCEPT ![c].pc = "SPEND_RECORDED",
                                     ![c].actualCost = Num(actualCost),
                                     ![c].remaining = Num(data'.totalBudget - data'.spent)]
    /\ UNCHANGED <<ledgerVars, vaultVars, providers, hlosVars, running, ret>>

\* 9. Mint receipt
MintStep(c, receiptId, timestamp) ==
    /\ running = c
    /\ calls[c].pc = "SPEND_RECORDED"
    /\ LET f == calls[c]
           requestDescriptor ==
               Obj(<<KV("method", Str(f.request.method)),
                     KV("path", Str(f.request.path)),
                     KV("queryParams", f.heap["request.queryParams"]),
                     KV("bodyHash", Str(IF Truthy(f.heap[f.body.v])
                                        THEN "present" ELSE "absent"))>>)
           receipt == NewReceipt(receipts, contextId, receiptId, timestamp,
                                 f.request.providerId, f.actualCost.v,
                                 requestDescriptor, f.responseData)
       IN  /\ receipts' = Append(receipts, receipt)
           /\ receiptsFile' = LedgerFileOf(contextId, receipts')
           /\ calls' = [calls EXCEPT ![c].pc = "RECEIPT_MINTED",
                                     ![c].requestDescriptor = requestDescriptor,
                                     ![c].receipt = receipt]
    /\ UNCHANGED <<contextId, tamper, vaultVars, walletVars, providers, hlosVars, running, ret>>

\* 10. Return response + receipt
Return(c) ==
    /\ running = c
    /\ calls[c].pc = "RECEIPT_MINTED"
    /\ calls' = [calls EXCEPT ![c].pc = "DONE",
                    ![c].result = [status |-> calls[c].response.status,
                                   data |-> calls[c].responseData,
                                   receipt |-> calls[c].receipt,
                                   cost |-> calls[c].actualCost.v,
                                   remainingBudget |-> calls[c].remaining.v]]
    /\ running' = 0
    /\ UNCHANGED <<ledgerVars, vaultVars, walletVars, providers, hlosVars, ret>>

\* 8. with the write of the wallet file failing: recordSpend() has updated
\* this.data when persist() throws, and the error of writeFileSync leaves call()
RecordSpendPersistFails(c) ==
    /\ running = c
    /\ calls[c].pc = "RESPONSE_PARSED"
    /\ LET f == calls[c]
           actualCost == calculateActualCost(providers, f.provider, f.request.body,
                                             f.responseData)
       IN  /\ data' = recordSpend(data, f.request.providerId, actualCost)
           /\ calls' = [calls EXCEPT ![c].pc = "FAILED",
                                     ![c].actualCost = Num(actualCost),
                                     ![c].error = [name |-> "Error", code |-> ""]]
    /\ running' = 0
    /\ UNCHANGED <<ledgerVars, vaultVars, walletFile, providers, hlosVars, ret>>

\* 9. with the write of the receipts file failing: mint() has pushed the receipt
\* when persist() throws
MintPersistFails(c, receiptId, timestamp) ==
    /\ running = c
    /\ calls[c].pc = "SPEND_RECORDED"
    /\ LET f == calls[c]
           receipt == NewReceipt(receipts, contextId, receiptId, timestamp,
                                 f.request.providerId, f.actualCost.v,
                                 RequestDescriptor(f.request.method, f.request.path,
                                     f.heap["request.queryParams"],
                                     IF Truthy(f.heap[f.body.v]) THEN "present" ELSE "absent"),
                                 f.responseData)
       IN  /\ receipts' = Append(receipts, receipt)
           /\ calls' = [calls EXCEPT ![c].pc = "FAILED",
                                     ![c].error = [name |-> "Error", code |-> ""]]
    /\ running' = 0
    /\ UNCHANGED <<contextId, receiptsFile, tamper, vaultVars, walletVars, providers, hlosVars, ret>>

---------------------------------------------------------------------------
(* Initial states: the stores as constructed over their files *)

DefaultBudget == 10000000

\* new Wallet(walletPath, budgetMicrodollars) over a missing file
NewWallet(budgetMicrodollars, createdAt) ==
    [totalBudget |-> budgetMicrodollars, spent |-> 0, byProvider |-> EmptyObject,
     createdAt |-> createdAt]

\* a vault file written by earlier store() calls
StoredRecord(providerId, credential) ==
    KV(providerId, [providerId |-> providerId, credential |-> credential,
                    storedAt |-> "2026-01-01T00:00:00.000Z", active |-> TRUE])

LoadedVault ==
    << StoredRecord("openai", "sk-test-ABCDWXYZ"),
       StoredRecord("acme-query", "qk-12345678"),
       StoredRecord("acme-body", "SECRET") >>

CallBudgets == {100, DefaultBudget}

InitStores(recs, budgets, customProviders) ==
    /\ receipts = <<>>
    /\ contextId = "ctx-a"
    /\ receiptsFile = MissingFile
    /\ tamper = NoTamper
    /\ records = recs
    /\ vaultFile = IF recs = <<>> THEN MissingFile ELSE VaultFileOf(recs)
    /\ \E b \in budgets, t \in Timestamps : data = NewWallet(b, t)
    /\ walletFile = MissingFile
    /\ providers = NewRegistry(customProviders)
    /\ calls = [c \in CallIds |-> IdleFrame]
    /\ running = 0
    /\ ret = NoReturn
    /\ verbose = FALSE
    /\ kernelRequests = <<>>

InitLedger == InitStores(<<>>, {DefaultBudget}, <<>>)
InitVault  == InitStores(<<>>, {DefaultBudget}, <<>>)
InitWallet == InitStores(<<>>, Budgets, <<>>)
Init       == InitStores(LoadedVault, CallBudgets, CustomProviders)

---------------------------------------------------------------------------
(* Next-state relations and specifications *)

\* The ledger is driven by mints until its file is altered; from then on it is
\* only read.
NextLedger ==
    \/ /\ tamper = NoTamper
       /\ \E in \in MintInputs, receiptId \in UUIDs, timestamp \in Timestamps :
             Mint(in, receiptId, timestamp)
    \/ GetChain
    \/ \E n \in 0..(MaxReceipts + 1) : GetRecent(n)
    \/ VerifyChain
    \/ Summary
    \/ \E fresh \in ContextIds : ReloadLedger(fresh)
    \/ \E k \in 0..(MaxReceipts - 1), field \in ReceiptFields, fresh \in ContextIds :
          TamperAndReload(k, field, fresh)

\* The ledger minting bodies that are equal up to the order of their keys
NextCanon ==
    \E body \in CanonValues, timestamp \in Timestamps :
        MintBody(body, UUIDAt(Len(receipts) + 1), timestamp)

NextVault ==
    \/ \E p \in VaultProviderIds, c \in Credentials, t \in Timestamps : Store(p, c, t)
    \/ \E p \in VaultProviderIds : Remove(p)
    \/ List
    \/ \E p \in VaultProviderIds : Has(p)

NextWallet ==
    \/ \E p \in WalletProviderIds, c \in Amounts : RecordSpend(p, c)
    \/ \E m \in Budgets : SetBudget(m)
    \/ ResetSpend
    \/ \E p \in WalletProviderIds, c \in Amounts : CheckBudget(p, c)
    \/ GetState

Next ==
    \/ \E c \in CallIds, request \in Requests : StartCall(c, request)
    \/ \E c \in CallIds : ResolveProvider(c)
    \/ \E c \in CallIds : CheckCredential(c)
    \/ \E c \in CallIds : BudgetGate(c)
    \/ \E c \in CallIds : Dispatch(c)
    \/ \E c \in CallIds, response \in Responses : FetchResolves(c, response)
    \/ \E c \in CallIds : FetchRejects(c)
    \/ \E c \in CallIds : BodyRead(c)
    \/ \E c \in CallIds : BodyReadFails(c)
    \/ \E c \in CallIds : RecordSpendStep(c)
    \/ \E c \in CallIds, timestamp \in Timestamps :
          MintStep(c, UUIDAt(Len(receipts) + 1), timestamp)
    \/ \E c \in CallIds : Return(c)

SpecLedger == InitLedger /\ [][NextLedger]_vars
SpecCanon  == InitLedger /\ [][NextCanon]_vars
SpecVault  == InitVault /\ [][NextVault]_vars
SpecWallet == InitWallet /\ [][NextWallet]_vars
Spec       == Init /\ [][Next]_vars

\* The cost call() passes to recordSpend for a response of openai whose
\* usage.total_tokens is as given
CostOfUsage(totalTokens) ==
    calculateActualCost(providers, MapGet(providers, "openai"), Null,
                        Obj(<<KV("usage", Obj(<<KV("total_tokens", totalTokens)>>))>>))

\* The mutating operations of the three stores, the wallet charged with the
\* costs of responses whose total_tokens is 1000 and "n/a"
NextStores ==
    \/ \E p \in VaultProviderIds, c \in {"k", "abcde"}, t \in Timestamps : Store(p, c, t)
    \/ \E p \in VaultProviderIds : Remove(p)
    \/ \E totalTokens \in {Num(1000), Str("n/a")} :
          RecordSpend("openai", CostOfUsage(totalTokens))
    \/ \E m \in {5} : SetBudget(m)
    \/ ResetSpend
    \/ \E in \in MintInputs, timestamp \in Timestamps :
          Mint(in, UUIDAt(Len(receipts) + 1), timestamp)

SpecStores == InitLedger /\ [][NextStores]_vars

\* Responses whose usage.total_tokens is a numeric string or a negative number
SequentialResponses ==
    Responses \cup
    { Response(200, "application/json",
               Obj(<<KV("usage", Obj(<<KV("total_tokens", Str("2000"))>>))>>),
               "{\"usage\":{\"total_tokens\":\"2000\"}}"),
      Response(200, "application/json", UsageResponse(-2000),
               JSONStringify(UsageResponse(-2000))) }

\* no call() is in flight
AllSettled == \A c \in CallIds : calls[c].pc \in {"IDLE", "DONE", "FAILED"}

\* The pipeline with its calls made strictly one after another: the caller
\* awaits each call() before the next.
NextSequential ==
    \/ /\ AllSettled
       /\ \E c \in CallIds, request \in Requests : StartCall(c, request)
    \/ \E c \in CallIds : ResolveProvider(c)
    \/ \E c \in CallIds : CheckCredential(c)
    \/ \E c \in CallIds : BudgetGate(c)
    \/ \E c \in CallIds : Dispatch(c)
    \/ \E c \in CallIds, response \in SequentialResponses : FetchResolves(c, response)
    \/ \E c \in CallIds : FetchRejects(c)
    \/ \E c \in CallIds : BodyRead(c)
    \/ \E c \in CallIds : BodyReadFails(c)
    \/ \E c \in CallIds : RecordSpendStep(c)
    \/ \E c \in CallIds, timestamp \in Timestamps :
          MintStep(c, UUIDAt(Len(receipts) + 1), timestamp)
    \/ \E c \in CallIds : Return(c)

SpecSequential == Init /\ [][NextSequential]_vars

\* The sequential pipeline on a disk whose writes may fail: writeFileSync() of
\* the wallet file or of the receipts file throws.
NextFaulty ==
    \/ NextSequential
    \/ \E c \in CallIds : RecordSpendPersistFails(c)
    \/ \E c \in CallIds, timestamp \in Timestamps :
          MintPersistFails(c, UUIDAt(Len(receipts) + 1), timestamp)

SpecFaulty == Init /\ [][NextFaulty]_vars

\* The steps of call() the JavaScript job queue runs once they are enabled: the
\* synchronous stretches of the code.  When fetch() or the body read settles is
\* up to the provider and the network; the code sets no timer and passes no
\* signal to fetch().
ProgramStep(c) ==
    \/ ResolveProvider(c)
    \/ CheckCredential(c)
    \/ BudgetGate(c)
    \/ Dispatch(c)
    \/ RecordSpendStep(c)
    \/ Return(c)

\* The mint of step 9 is such a step too.  It is enabled exactly while the call
\* is at SPEND_RECORDED and leaves that position, so its weak fairness is stated
\* on the position.
MintPending(c) == calls[c].pc = "SPEND_RECORDED"

SpecLive ==
    /\ Init /\ [][Next]_vars
    /\ \A c \in CallIds : WF_vars(ProgramStep(c)) /\ []<>(~MintPending(c))

\* Requests to the provider whose credential goes into the body: a body that is
\* an object without and with the provider's auth field, a string, an array,
\* null and no body
BodyAuthRequests ==
    { Request("acme-body", "POST", "/ask", Undefined, body, Undefined) :
        body \in { Obj(<<KV("q", Str("x"))>>),
                   Obj(<<KV("key", Str("mine")), KV("q", Str("x"))>>),
                   Str("hello"),
                   Arr(<<Num(1)>>),
                   Null,
                   Undefined } }

\* call() invoked with these requests, one call at a time
NextBodyAuth ==
    \/ /\ AllSettled
       /\ \E c \in CallIds, request \in BodyAuthRequests : StartCall(c, request)
    \/ \E c \in CallIds : ProgramStep(c)
    \/ \E c \in CallIds, response \in Responses : FetchResolves(c, response)
    \/ \E c \in CallIds : FetchRejects(c)
    \/ \E c \in CallIds : BodyRead(c)
    \/ \E c \in CallIds, timestamp \in Timestamps :
          MintStep(c, UUIDAt(Len(receipts) + 1), timestamp)

SpecBodyAuth == Init /\ [][NextBodyAuth]_vars

\* A vault that is empty or was loaded from a file holding a record that is not
\* active
InitInjection ==
    \E recs \in { <<>>,
                   <<KV("acme", [providerId |-> "acme", credential |-> "abcd",
                                 storedAt |-> "2026-01-01T00:00:00.000Z",
                                 active |-> FALSE])>> } :
        InitStores(recs, {DefaultBudget}, CustomProviders)

\* The vault's operations called directly, with the configurations of a
\* header, a query and a body provider
NextInjection ==
    \/ \E p \in VaultProviderIds, c \in {"k", "abcde"}, t \in Timestamps : Store(p, c, t)
    \/ \E p \in VaultProviderIds : Remove(p)
    \/ \E p \in VaultProviderIds : Has(p)
    \/ \E p \in VaultProviderIds, id \in {"openai", "acme-query", "acme-body"} :
          InjectAuth(p, MapGet(providers, id),
                     Obj(<<KV("Accept", Str("*/*"))>>), Obj(<<>>))
    \/ \E p \in VaultProviderIds : GetCredentialForBodyInjection(p)

SpecInjection == InitInjection /\ [][NextInjection]_vars

---------------------------------------------------------------------------
(* Operations of the provider registry *)

\* AddProvider with the fault of keeping the record an id already has
AddProvider_KeepsOld(provider) ==
    /\ providers' = IF MapHas(providers, provider.id) THEN providers
                    ELSE MapSet(providers, provider.id, provider)
    /\ ret' = [op |-> "add", provider |-> provider]
    /\ UNCHANGED <<ledgerVars, vaultVars, walletVars, calls, running, hlosVars>>

\* add(provider)
AddProvider(provider) ==
    /\ providers' = MapSet(providers, provider.id, provider)
    /\ ret' = [op |-> "add", provider |-> provider]
    /\ UNCHANGED <<ledgerVars, vaultVars, walletVars, calls, running, hlosVars>>

\* list()
ListProviders ==
    /\ ret' = [op |-> "listProviders", value |-> MapValues(providers)]
    /\ UNCHANGED <<ledgerVars, vaultVars, walletVars, callVars>>

\* get(providerId)
GetProvider(providerId) ==
    /\ ret' = [op |-> "getProvider", providerId |-> providerId,
               value |-> IF MapHas(providers, providerId)
                         THEN MapGet(providers, providerId) ELSE Undefined]
    /\ UNCHANGED <<ledgerVars, vaultVars, walletVars, callVars>>

\* estimateCost(providerId, requestBody)
EstimateCost(providerId, requestBody) ==
    /\ ret' = [op |-> "estimateCost", providerId |-> providerId,
               requestBody |-> requestBody,
               value |-> estimateCost(providers, providerId, requestBody)]
    /\ UNCHANGED <<ledgerVars, vaultVars, walletVars, callVars>>

\* The providers a user registers: two new ones, one of them a second time with
\* another price, and a replacement of the built-in openai
AddedProviders ==
    { CustomProviders[1], CustomProviders[2],
      [CustomProviders[1] EXCEPT !.costPerUnit = 700],
      Provider("openai", "OpenAI (proxy)", "https://llm.acme.test/v1", "header",
               "Authorization", Str("Bearer "), 100, "per_request") }

InitRegistry ==
    \E customProviders \in {<<>>, <<CustomProviders[2]>>} :
        InitStores(<<>>, {DefaultBudget}, customProviders)

NextRegistry ==
    \/ \E provider \in AddedProviders : AddProvider(provider)
    \/ ListProviders
    \/ \E id \in {"openai", "groq", "acme-query", "acme-body", "nope"} :
          GetProvider(id)
    \/ \E id \in {"openai", "acme-query", "acme-body", "nope"},
          requestBody \in {Undefined, Null, Str("abcd"),
                           Obj(<<KV("model", Str("m")), KV("messages", Arr(<<>>))>>)} :
          EstimateCost(id, requestBody)

SpecRegistry == InitRegistry /\ [][NextRegistry]_vars

\* buildUrl(provider, path, queryParams) for a provider with this baseUrl
BuildUrl(baseUrl, path, queryParams) ==
    /\ ret' = [op |-> "buildUrl", baseUrl |-> baseUrl, path |-> path,
               queryParams |-> queryParams,
               value |-> buildUrl([CustomProviders[1] EXCEPT !.baseUrl = baseUrl],
                                  path, queryParams)]
    /\ UNCHANGED <<ledgerVars, vaultVars, walletVars, callVars>>

\* Base URLs and paths without, with one and with two slashes where they meet,
\* and query parameters without and with the credential injectAuth adds
NextUrl ==
    \E baseUrl \in {"https://h.test", "https://h.test/", "https://h.test//",
                     "https://h.test/v1", "https://h.test/v1/", "https://h.test/v1//"},
       path \in {"x", "/x", "//x", "x/", "/a/b", "a/b"},
       queryParams \in {Obj(<<>>), Obj(<<KV("q", Str("x"))>>),
                        Obj(<<KV("q", Str("x")), KV("api_key", Str("qk-12345678"))>>)} :
        BuildUrl(baseUrl, path, queryParams)

SpecUrl == InitLedger /\ [][NextUrl]_vars

---------------------------------------------------------------------------
(* The remote (HLOS) tool handlers *)

\* params.path.replace(/^\/+/, "")
RECURSIVE StripLeadingSlashes(_)
StripLeadingSlashes(s) ==
    IF StartsWithSlash(s) THEN StripLeadingSlashes(SubSeq(s, 2, Len(s))) ELSE s

\* JSON.parse(text): the value whose JSON text it is, Unset when JSON.parse
\* throws.  The values are those the bodies of CallApiParams spell.
JSONParse(text) ==
    LET values == {Obj(<<>>), Obj(<<KV("model", Str("m"))>>)}
    IN  IF \E v \in values : JSONStringify(v) = text
        THEN CHOOSE v \in values : JSONStringify(v) = text
        ELSE Unset

\* mapToV2Operation with the fault of accepting every provider
mapToV2Operation_AnyProvider(params) ==
    LET path == StripLeadingSlashes(params.path)
    IN  IF /\ params.method = "POST"
           /\ path \in {"chat/completions", "v1/chat/completions"}
        THEN [name |-> "chat.completions", request |-> params.body]
        ELSE Null

\* mapToV2Operation(params): null when the operation is not supported
mapToV2Operation(params) ==
    LET path == StripLeadingSlashes(params.path)
    IN  IF /\ params.provider = "openai"
           /\ params.method = "POST"
           /\ path \in {"chat/completions", "v1/chat/completions"}
        THEN LET request == IF params.body.t \in {"undef", "null"}
                            THEN Obj(<<>>) ELSE params.body
             IN  [name |-> "chat.completions",
                  request |-> IF request.t = "str" /\ JSONParse(request.v) # Unset
                              THEN JSONParse(request.v) ELSE request]
        ELSE Null

\* json(data): the tool result whose text is JSON.stringify(data, null, 2), held
\* as the object that text spells: a key whose value is undefined is left out
json(o) ==
    [content |-> Obj(SelectSeq(o.v, LAMBDA e : e.v.t # "undef")), isError |-> FALSE]

\* agentView with the fault of copying the kernel's accounting fields always
agentView_Accounting(kernelData, corId, isVerbose) ==
    Obj(<<KV("status", Get(kernelData, "status")),
          KV("data", Get(kernelData, "data")),
          KV("receipt_id", Get(kernelData, "receipt_id")),
          KV("cost", Get(kernelData, "cost")),
          KV("remaining_budget", Get(kernelData, "remaining_budget"))>>)

\* what callApi lets the agent see of the kernel's response
agentView(kernelData, corId, isVerbose) ==
    LET view == Obj(<<KV("status", Get(kernelData, "status")),
                      KV("data", Get(kernelData, "data")),
                      KV("receipt_id", Get(kernelData, "receipt_id"))>>)
    IN  IF isVerbose
        THEN PutAll(view, <<KV("cost", Get(kernelData, "cost")),
                            KV("remaining_budget", Get(kernelData, "remaining_budget")),
                            KV("correlation_id", Str(corId)),
                            KV("mode", Str("hlos"))>>)
        ELSE view

\* The parameters of the call_api tool
CallApiParams ==
    [provider : {"openai", "anthropic"},
     method : {"POST", "GET"},
     path : {"/chat/completions", "chat/completions", "//v1/chat/completions",
             "/embeddings", "/v2/chat/completions"},
     body : {Undefined, Obj(<<KV("model", Str("m"))>>), Str("{}"), Str("hi")}]

\* How kernel.post() settles: resolved with the JSON body of a 2xx response
\* (null when that body is not JSON), or rejected, for a 401 or anything else
KernelOutcomes ==
    { [kind |-> "resolved",
       data |-> Obj(<<KV("status", Num(200)),
                      KV("data", UsageResponse(2000)),
                      KV("receipt_id", Str("rcpt_1")),
                      KV("cost", Num(6000)),
                      KV("remaining_budget", Num(94000))>>)],
      [kind |-> "resolved",
       data |-> Obj(<<KV("status", Num(429)),
                      KV("data", Str("slow down")),
                      KV("receipt_id", Str("rcpt_2")),
                      KV("cost", Num(0)),
                      KV("remaining_budget", Num(100000)),
                      KV("provider", Str("openai"))>>)],
      [kind |-> "resolved", data |-> Null],
      [kind |-> "rejected", auth |-> TRUE],
      [kind |-> "rejected", auth |-> FALSE] }

\* callApi(params), with the outcome of its kernel.post()
CallApi(params, outcome) ==
    /\ Len(kernelRequests) < MaxKernelRequests
    /\ LET operation == mapToV2Operation(params)
       IN  IF operation = Null
           THEN /\ ret' = [op |-> "callApi", params |-> params,
                           value |-> json(Obj(<<
                               KV("code", Str("UNSUPPORTED_OPERATION")),
                               KV("message",
                                  Str("Only OpenAI chat completions supported in v2 demo.")),
                               KV("next_step", Str("Use path /chat/completions."))>>))]
                /\ UNCHANGED kernelRequests
           ELSE /\ kernelRequests' = Append(kernelRequests,
                       [method |-> "POST", path |-> "/api/v2/proxy/call",
                        body |-> Obj(<<KV("provider", Str(params.provider)),
                                       KV("operation", Str(operation.name)),
                                       KV("request", operation.request)>>)])
                /\ ret' = [op |-> "callApi", params |-> params, outcome |-> outcome,
                           value |->
                             IF outcome.kind = "rejected"
                             THEN [content |-> Str(IF outcome.auth
                                                   THEN "HLOS authentication failed."
                                                   ELSE "API call failed"),
                                   isError |-> TRUE]
                             ELSE IF outcome.data = Null
                             THEN [content |-> Str("API call failed"), isError |-> TRUE]
                             ELSE json(agentView(outcome.data, "cor_1", verbose))]
    /\ UNCHANGED <<ledgerVars, vaultVars, walletVars, providers, calls, running, verbose>>

\* The handlers of a process started with or without BUTTERKNIFE_VERBOSE=true
InitHlos ==
    /\ receipts = <<>>
    /\ contextId = "ctx-a"
    /\ receiptsFile = MissingFile
    /\ tamper = NoTamper
    /\ records = <<>>
    /\ vaultFile = MissingFile
    /\ \E t \in Timestamps : data = NewWallet(DefaultBudget, t)
    /\ walletFile = MissingFile
    /\ providers = NewRegistry(<<>>)
    /\ calls = [c \in CallIds |-> IdleFrame]
    /\ running = 0
    /\ ret = NoReturn
    /\ verbose \in BOOLEAN
    /\ kernelRequests = <<>>

NextHlos == \E params \in CallApiParams, outcome \in KernelOutcomes : CallApi(params, outcome)

SpecHlos == InitHlos /\ [][NextHlos]_vars

---------------------------------------------------------------------------
(* Start-up of the local stores *)

\* The files the three stores may find at start-up: none, one that is not
\* JSON, one that holds the JSON value null
StartupFiles == {MissingFile, CorruptFile, NullFile}

InitStartup ==
    /\ receipts = <<>>
    /\ contextId = "ctx-a"
    /\ receiptsFile \in StartupFiles
    /\ tamper = NoTamper
    /\ records = <<>>
    /\ vaultFile \in StartupFiles
    /\ \E t \in Timestamps : data = NewWallet(DefaultBudget, t)
    /\ walletFile \in StartupFiles
    /\ providers = NewRegistry(<<>>)
    /\ calls = [c \in CallIds |-> IdleFrame]
    /\ running = 0
    /\ ret = NoReturn
    /\ verbose = FALSE
    /\ kernelRequests = <<>>

\* The three stores constructed over their files and used afterwards
NextStartup ==
    \/ \E fresh \in ContextIds : ReloadLedger(fresh)
    \/ ReloadVault
    \/ \E t \in Timestamps : ReloadWallet(DefaultBudget, t)
    \/ \E t \in Timestamps : Store("openai", "k", t)
    \/ Has("openai")
    \/ /\ data # Null
       /\ \/ RecordSpend("openai", 2)
          \/ GetState
    \/ WalletThrows
    \/ \E in \in MintInputs, timestamp \in Timestamps :
          Mint(in, UUIDAt(Len(receipts) + 1), timestamp)
    \/ VerifyChain

SpecStartup == InitStartup /\ [][NextStartup]_vars

---------------------------------------------------------------------------
(* The receipt ledger *)

\* C1: starting from an empty ledger, verify() returns valid = true after every
\* successful mint, whatever the provider ids, costs, request descriptors and
\* response bodies minted.
C1_VerifyAfterMint == tamper = NoTamper => verify(receipts).valid

C1_Witness ==
    /\ tamper = NoTamper
    /\ ret.op = "mint"
    /\ Len(receipts) = 3
    /\ verify(receipts).valid

\* C2: in every ledger reached by mints, the first receipt's previousReceiptHash
\* is the genesis hash (sixty-four "0" characters) and every later receipt's
\* previousReceiptHash is the receiptHash of the receipt before it.
C2_ChainLinks ==
    tamper = NoTamper =>
        \A i \in 1..Len(receipts) :
            IF i = 1
            THEN /\ receipts[1].previousReceiptHash = GENESIS_HASH
                 /\ Len(receipts[1].previousReceiptHash) = 64
                 /\ \A j \in 1..64 : SubSeq(receipts[1].previousReceiptHash, j, j) = "0"
            ELSE receipts[i].previousReceiptHash = receipts[i - 1].receiptHash

C2_Witness ==
    /\ tamper = NoTamper
    /\ Len(receipts) >= 2
    /\ receipts[1].previousReceiptHash = GENESIS_HASH
    /\ receipts[2].previousReceiptHash = receipts[1].receiptHash
    /\ receipts[2].previousReceiptHash # GENESIS_HASH

\* C3: altering any single field of the receipt at index k in the file, without
\* recomputing hashes, and reloading makes verify() return valid = false with
\* brokenAt >= k; altering only the cost of receipt 1 of a three-receipt chain
\* gives valid = false, brokenAt = 1.
C3_TamperDetected ==
    tamper # NoTamper =>
        /\ ~verify(receipts).valid
        /\ verify(receipts).brokenAt >= tamper.index
        /\ (tamper = [index |-> 1, field |-> "cost"] /\ Len(receipts) = 3)
               => verify(receipts).brokenAt = 1

\* a and b are the same JSON value: objects are equal when they have the same
\* keys with equal values, whatever the order of the keys; arrays are equal
\* element by element
RECURSIVE JsonEqual(_, _)
JsonEqual(a, b) ==
    IF a.t # b.t THEN FALSE
    ELSE IF a.t = "obj"
    THEN /\ {a.v[i].k : i \in 1..Len(a.v)} = {b.v[i].k : i \in 1..Len(b.v)}
         /\ Len(a.v) = Len(b.v)
         /\ \A i \in 1..Len(a.v) : JsonEqual(a.v[i].v, Get(b, a.v[i].k))
    ELSE IF a.t = "arr"
    THEN /\ Len(a.v) = Len(b.v)
         /\ \A i \in 1..Len(a.v) : JsonEqual(a.v[i], b.v[i])
    ELSE a = b

\* C18: two bodies that are equal as JSON values and list their keys in
\* different orders, at any nesting depth, get the same request hash and the same
\* response hash from mint.
C18_KeyOrderIndependent ==
    ret.op = "mintBody" =>
        \A i, j \in 1..Len(ret.bodies) :
            JsonEqual(ret.bodies[i], ret.bodies[j]) =>
                /\ receipts[i].requestHash = receipts[j].requestHash
                /\ receipts[i].responseHash = receipts[j].responseHash

\* the same body minted with its keys reordered inside a nested object
C18_Witness ==
    /\ ret.op = "mintBody"
    /\ Len(ret.bodies) = 2
    /\ ret.bodies[1] # ret.bodies[2]
    /\ JsonEqual(ret.bodies[1], ret.bodies[2])
    /\ ret.bodies[1].t = "obj"
    /\ \E i \in 1..Len(ret.bodies[1].v) :
          LET k == ret.bodies[1].v[i].k
          IN  /\ Get(ret.bodies[1], k).t = "obj"
              /\ Get(ret.bodies[1], k) # Get(ret.bodies[2], k)
    /\ receipts[1].requestHash = receipts[2].requestHash

---------------------------------------------------------------------------
(* The vault *)

\* C5: after any sequence of store and remove, no VaultEntry returned by list()
\* or store() has a credential field, and no field of an entry equals a stored
\* credential, whatever the credential's length.
C5_ListNeverExposes ==
    ret.op \in {"list", "store"} =>
        \A i \in 1..Len(ret.value) :
            LET entry == ret.value[i]
            IN  /\ "credential" \notin DOMAIN entry
                /\ \A j \in 1..Len(records) :
                      LET credential == records[j].v.credential
                      IN  /\ entry.providerId # credential
                          /\ entry.storedAt # credential
                          /\ entry.fingerprint # credential

\* C17: after any sequence of store and remove the vault holds at most one
\* record per provider id, each under its own id; after store(p, c) there is
\* exactly one record for p, active, holding c, and the entry store returns has
\* the last 4 characters of c as its fingerprint; store(p, c) after store(p, c)
\* adds no record and moves none.
C17_StoreIsIdempotent ==
    /\ [](/\ \A i, j \in 1..Len(records) :
                records[i].k = records[j].k => i = j
          /\ \A i \in 1..Len(records) : records[i].v.providerId = records[i].k
          /\ ret.op = "store" =>
                LET c == ret.credential
                    last4 == SubSeq(c, IF Len(c) > 4 THEN Len(c) - 3 ELSE 1, Len(c))
                IN  /\ Cardinality({i \in 1..Len(records) :
                                       records[i].v.providerId = ret.providerId}) = 1
                    /\ MapGet(records, ret.providerId).active
                    /\ MapGet(records, ret.providerId).credential = c
                    /\ Len(ret.value) = 1
                    /\ ret.value[1].providerId = ret.providerId
                    /\ ret.value[1].active
                    /\ ret.value[1].fingerprint = last4)
    /\ [][(/\ ret.op = "store" /\ ret'.op = "store"
           /\ ret'.providerId = ret.providerId
           /\ ret'.credential = ret.credential)
            => /\ Len(records') = Len(records)
               /\ \A i \in 1..Len(records) :
                     /\ records'[i].k = records[i].k
                     /\ records'[i].v.credential = records[i].v.credential
                     /\ records'[i].v.active = records[i].v.active]_vars

\* a provider stored again, in place, next to another provider's record
C17_Witness ==
    /\ ret.op = "store"
    /\ Len(records) = 2
    /\ records[1].k = ret.providerId
    /\ Len(ret.credential) > 4
    /\ ret.value[1].fingerprint # ret.credential
    /\ records[2].k # ret.providerId

---------------------------------------------------------------------------
(* The wallet *)

C10_CheckBudget ==
    /\ [](ret.op = "checkBudget" =>
            LET remaining == data.totalBudget - data.spent
            IN  /\ ret.value.allowed = (ret.estimatedCost <= remaining)
                /\ ret.value.remainingAfter = remaining - ret.estimatedCost
                /\ ("reason" \in DOMAIN ret.value) = ~ret.value.allowed)
    /\ [][ret'.op = "checkBudget" => UNCHANGED <<data, walletFile>>]_vars

C10_Witness ==
    /\ ret.op = "checkBudget"
    /\ data.totalBudget - data.spent > 0
    /\ ret.estimatedCost = data.totalBudget - data.spent
    /\ ret.value.allowed
    /\ ret.value.remainingAfter = 0

---------------------------------------------------------------------------
(* The call pipeline *)

PreDispatchCodes == {"UNKNOWN_PROVIDER", "NO_CREDENTIAL", "BUDGET_EXCEEDED"}

storeVars == <<receipts, contextId, receiptsFile, records, vaultFile, data, walletFile>>

\* the credential the vault holds for the provider of frame f
SecretOf(f) == MapGet(records, f.request.providerId).credential

\* C4: for every call() that returns, the provider's credential appears neither
\* in the request-hash input {method, path, queryParams, bodyHash} passed to
\* mint, nor in the returned receipt, nor in the returned data, and the caller's
\* headers, queryParams and body objects are unchanged and free of it.
C4_NoCredentialLeak ==
    \A c \in CallIds :
        calls[c].pc = "DONE" =>
            LET f == calls[c]
                secret == SecretOf(f)
            IN  /\ ObjectKeys(f.requestDescriptor)
                       = <<"method", "path", "queryParams", "bodyHash">>
                /\ ~Includes(stableStringify(f.requestDescriptor), secret)
                /\ \A field \in ReceiptStringFields :
                      ~Includes(f.result.receipt[field], secret)
                /\ ~Includes(stableStringify(f.result.data), secret)
                /\ f.heap["request.headers"] = f.request.headers
                /\ f.heap["request.queryParams"] = f.request.queryParams
                /\ f.heap["request.body"] = f.request.body
                /\ \A r \in {"request.headers", "request.queryParams", "request.body"} :
                      ~Includes(stableStringify(f.heap[r]), secret)

\* two calls have returned, one authenticated by a query parameter and one by
\* a body field, and the credential did go out with each request
C4_Witness ==
    \E c1, c2 \in CallIds :
        /\ calls[c1].pc = "DONE" /\ calls[c2].pc = "DONE"
        /\ calls[c1].provider.authMethod = "query"
        /\ Includes(calls[c1].fetch.url, SecretOf(calls[c1]))
        /\ calls[c2].provider.authMethod = "body"
        /\ Includes(calls[c2].fetch.body.v, SecretOf(calls[c2]))

\* C7: a call() that fails with UNKNOWN_PROVIDER, NO_CREDENTIAL or
\* BUDGET_EXCEEDED has issued no HTTP request, and no step of it, from its
\* invocation to the failure, changes the wallet, the ledger or the vault.
C7_EarlyFailureNoSideEffect ==
    /\ [](\A c \in CallIds :
            (calls[c].pc = "FAILED" /\ calls[c].error.code \in PreDispatchCodes) =>
                /\ calls[c].fetch = Unset
                /\ calls[c].response = Unset
                /\ calls[c].receipt = Unset)
    /\ [][\A c \in CallIds :
            (\/ calls[c].pc = "IDLE" /\ calls'[c].pc # "IDLE"
             \/ running = c /\ calls[c].pc \in {"INIT", "PROVIDER_OK", "CRED_OK"})
                => UNCHANGED storeVars]_vars

C7_Witness ==
    \E c1, c2 \in CallIds :
        /\ calls[c1].pc = "FAILED" /\ calls[c1].error.code = "BUDGET_EXCEEDED"
        /\ calls[c2].pc = "FAILED" /\ calls[c2].error.code = "NO_CREDENTIAL"
        /\ data.spent = 0
        /\ receipts = <<>>

\* C8: when the fetch() of a call() rejects, the call fails with NETWORK_ERROR,
\* records no spend and mints no receipt: the wallet and the ledger are not
\* changed by the failure.
C8_NetworkError ==
    /\ [](\A c \in CallIds :
            calls[c].response = Rejected =>
                /\ calls[c].pc = "FAILED"
                /\ calls[c].error = [name |-> "ProxyError", code |-> "NETWORK_ERROR"]
                /\ calls[c].actualCost = Unset
                /\ calls[c].remaining = Unset
                /\ calls[c].receipt = Unset)
    /\ [][\A c \in CallIds :
            (calls[c].response # Rejected /\ calls'[c].response = Rejected)
                => UNCHANGED <<data, walletFile, receipts, receiptsFile>>]_vars

C8_Witness ==
    \E c \in CallIds :
        /\ calls[c].response = Rejected
        /\ calls[c].fetch # Unset
        /\ calls[c].error.code = "NETWORK_ERROR"

\* C9: within one call() the budget check precedes the dispatch, the dispatch
\* the response, the response the recordSpend, the recordSpend the mint and the
\* mint the return: spend is recorded only with a response in hand, a receipt is
\* minted only after the spend was recorded, and a result is returned only after
\* both.
C9_PipelineOrder ==
    /\ [](\A c \in CallIds :
            LET f == calls[c]
            IN  /\ f.fetch # Unset => (f.budgetCheck # Unset /\ f.budgetCheck.allowed)
                /\ f.response # Unset => f.fetch # Unset
                /\ f.responseData # Unset => f.response # Unset
                /\ f.remaining # Unset => (f.responseData # Unset /\ f.actualCost # Unset)
                /\ f.receipt # Unset => f.remaining # Unset
                /\ f.result # Unset => (f.receipt # Unset /\ f.remaining # Unset))
    /\ [][/\ data' # data =>
                \E c \in CallIds :
                    /\ running = c
                    /\ calls[c].responseData # Unset
                    /\ calls[c].receipt = Unset
                    /\ calls'[c].remaining # Unset
          /\ receipts' # receipts =>
                \E c \in CallIds :
                    /\ running = c
                    /\ calls[c].remaining # Unset
                    /\ calls[c].result = Unset
                    /\ calls'[c].receipt = receipts'[Len(receipts')]
          /\ \A c \in CallIds :
                (calls[c].result = Unset /\ calls'[c].result # Unset) =>
                    /\ calls[c].receipt \in {receipts[i] : i \in 1..Len(receipts)}
                    /\ calls[c].remaining # Unset]_vars

C9_Witness ==
    \E c \in CallIds :
        /\ calls[c].pc = "DONE"
        /\ calls[c].result.status = 500
        /\ calls[c].result.cost > 0
        /\ calls[c].result.receipt = receipts[Len(receipts)]


---------------------------------------------------------------------------
(* Metering, budget and failures of the call pipeline *)

\* the response data holds a usage object with a numeric total_tokens
HasNumericTotalTokens(responseData) ==
    /\ responseData.t = "obj"
    /\ HasKey(responseData, "usage")
    /\ Get(responseData, "usage").t = "obj"
    /\ HasKey(Get(responseData, "usage"), "total_tokens")
    /\ Get(Get(responseData, "usage"), "total_tokens").t = "num"

\* C11: for every call() that returns, the cost charged is
\* ceil((total_tokens / 1000) * cost_per_unit) when the parsed response holds a
\* usage object with a numeric total_tokens and the provider's cost unit is
\* per_1k_tokens, and the pre-call estimate in every other case, a non-numeric
\* total_tokens included.
C11_CostCharged ==
    \A c \in CallIds :
        calls[c].pc = "DONE" =>
            LET f == calls[c]
            IN  f.result.cost =
                    IF /\ HasNumericTotalTokens(f.responseData)
                       /\ f.provider.costUnit = "per_1k_tokens"
                    THEN CeilPer1k(Get(Get(f.responseData, "usage"), "total_tokens").v,
                                   f.provider.costPerUnit)
                    ELSE f.estimatedCost.v

\* the spend the calls up to frame n have recorded
RECURSIVE SpendRecorded(_)
SpendRecorded(n) ==
    IF n = 0 THEN 0
    ELSE SpendRecorded(n - 1)
         + (IF calls[n].remaining # Unset THEN calls[n].actualCost.v ELSE 0)

\* C12: a response with a non-2xx status is not an error of call().  A call that
\* has its response fails only when the body cannot be read, never on the
\* status; a call that returned gives the response's status, whatever it is,
\* charges the cost calculateActualCost derives from the response, has that
\* cost in the wallet (spent is the sum of the recorded costs) and has its
\* receipt, carrying the cost, in the ledger.
C12_Non2xxReturns ==
    /\ data.spent = SpendRecorded(MaxCalls)
    /\ \A c \in CallIds :
          LET f == calls[c]
          IN  /\ (f.pc = "FAILED" /\ f.response # Unset /\ f.response # Rejected)
                    => f.error.name = "TypeError"
              /\ f.pc = "DONE" =>
                    /\ f.result.status = f.response.status
                    /\ f.result.data = f.responseData
                    /\ f.result.cost = calculateActualCost(providers, f.provider,
                                            f.request.body, f.responseData)
                    /\ f.result.receipt.cost = f.result.cost
                    /\ \E i \in 1..Len(receipts) : receipts[i] = f.result.receipt

C12_Witness ==
    \E c \in CallIds :
        /\ calls[c].pc = "DONE"
        /\ calls[c].result.status = 500
        /\ calls[c].result.data = Str("oops")
        /\ calls[c].result.cost > 0
        /\ data.spent >= calls[c].result.cost
        /\ \E i \in 1..Len(receipts) : receipts[i] = calls[c].result.receipt

\* C13: across any sequence of call() operations, spent and every by_provider
\* entry (0 when absent) never decrease, and so, from a fresh wallet, are never
\* negative: no negative amount is accepted, a cost derived from a provider
\* response included.
C13_SpendNeverDecreases ==
    [][/\ data'.spent >= data.spent
       /\ \A p \in DOMAIN data.byProvider \cup DOMAIN data'.byProvider :
              SpendOf(data'.byProvider, p) >= SpendOf(data.byProvider, p)]_vars

\* C14: with a fixed total budget and calls made strictly one after another,
\* spent <= total_budget holds after every call.
C14_SequentialWithinBudget ==
    AllSettled => data.spent <= data.totalBudget

\* C15: with several call() invocations in flight, interleaving at the dispatch
\* and at the response read, the chain verifies in every state; from the moment
\* a call has recorded its spend until its receipt is minted no step changes the
\* wallet, and the only change of the ledger is that receipt being appended;
\* every change of the ledger appends, at its end, the receipt of the call whose
\* mint completes in that step, so the append order is the order of completion.
C15_AtomicRecordAndMint ==
    /\ [](verify(receipts).valid)
    /\ [][/\ \A c \in CallIds :
                calls[c].pc = "SPEND_RECORDED" =>
                    /\ data' = data
                    /\ \/ receipts' = receipts
                       \/ /\ calls'[c].pc = "RECEIPT_MINTED"
                          /\ receipts' = Append(receipts, calls'[c].receipt)
          /\ receipts' # receipts =>
                \E c \in CallIds :
                    /\ calls[c].pc = "SPEND_RECORDED"
                    /\ calls[c].receipt = Unset
                    /\ receipts' = Append(receipts, calls'[c].receipt)]_vars

\* two calls in flight together, the later one minted first
C15_Witness ==
    /\ Len(receipts) = 2
    /\ calls[1].pc = "DONE"
    /\ calls[2].pc = "DONE"
    /\ receipts[1] = calls[2].result.receipt
    /\ receipts[2] = calls[1].result.receipt
    /\ verify(receipts).valid

\* C16: after a mutating operation of a store returns, a new instance
\* constructed over the store's file holds the state of the instance that wrote
\* it: the records of the vault; total budget, spent and by-provider amounts of
\* the wallet (created_at aside); context id and receipts of the ledger.
C16_ReloadIsIdentity ==
    /\ ret.op \in {"store", "remove"} => LoadedRecords(vaultFile) = records
    /\ ret.op \in {"recordSpend", "setBudget", "resetSpend"} =>
          LET loaded == LoadedWallet(walletFile, DefaultBudget, data.createdAt)
              written == WalletValue(data)
          IN  /\ loaded.totalBudget = written.totalBudget
              /\ loaded.spent = written.spent
              /\ loaded.byProvider = written.byProvider
    /\ ret.op = "mint" =>
          /\ \A fresh \in ContextIds : LoadedContextId(receiptsFile, fresh) = contextId
          /\ LoadedReceipts(receiptsFile) = receipts

\* C19: every failure of call() is a ProxyError whose kind is one of the
\* taxonomy's kinds; a failed write of the wallet or ledger file surfaces as
\* PERSISTENCE_ERROR (the in-memory store is then ahead of its file).
C19_FailuresAreTyped ==
    \A c \in CallIds :
        calls[c].pc = "FAILED" =>
            /\ calls[c].error.name = "ProxyError"
            /\ calls[c].error.code \in
                   {"UNKNOWN_PROVIDER", "NO_CREDENTIAL", "BUDGET_EXCEEDED",
                    "NETWORK_ERROR", "PERSISTENCE_ERROR", "CHAIN_CORRUPT"}
            /\ (calls[c].actualCost # Unset /\ calls[c].result = Unset)
                    => calls[c].error.code = "PERSISTENCE_ERROR"

\* C20: every call() eventually terminates, returning or failing: a dispatched
\* request the provider never answers times out.
C20_CallTerminates ==
    \A c \in CallIds :
        (calls[c].pc # "IDLE") ~> (calls[c].pc \in {"DONE", "FAILED"})

---------------------------------------------------------------------------
(* Dispatch, failures and body injection of the call pipeline *)

\* C21: each call() issues at most one HTTP dispatch.  A frame holds a
\* dispatched request exactly when its provider, credential and budget checks
\* passed (it is past the budget gate's success, or failed later than the gate);
\* a request is dispatched only by a frame that has dispatched none and holds
\* no response or rejection, and a frame that has dispatched never returns to a
\* position before the dispatch, whether fetch rejected or answered non-2xx.
C21_SingleDispatch ==
    /\ [](\A c \in CallIds :
            LET f == calls[c]
            IN  f.fetch # Unset <=>
                    \/ f.pc \in {"REQUEST_SENT", "RESPONSE_HEADERS", "RESPONSE_PARSED",
                                 "SPEND_RECORDED", "RECEIPT_MINTED", "DONE"}
                    \/ f.pc = "FAILED" /\ f.error.code \notin PreDispatchCodes)
    /\ [][\A c \in CallIds :
            /\ (calls'[c].pc = "REQUEST_SENT" /\ calls[c].pc # "REQUEST_SENT") =>
                    /\ calls[c].pc = "BUDGET_OK"
                    /\ calls[c].fetch = Unset
                    /\ calls[c].response = Unset
            /\ calls[c].fetch # Unset =>
                    /\ calls'[c].fetch = calls[c].fetch
                    /\ calls'[c].pc \notin
                           {"IDLE", "INIT", "PROVIDER_OK", "CRED_OK", "BUDGET_OK"}]_vars

\* one call ended in NETWORK_ERROR and one returned a 500, each after its one
\* dispatch
C21_Witness ==
    \E c1, c2 \in CallIds :
        /\ calls[c1].pc = "FAILED" /\ calls[c1].error.code = "NETWORK_ERROR"
        /\ calls[c1].fetch # Unset
        /\ calls[c2].pc = "DONE" /\ calls[c2].result.status = 500
        /\ calls[c2].fetch # Unset


\* C22: a vault, a wallet or a ledger constructed over a file that is missing
\* or corrupt (not JSON, or JSON of the wrong shape such as null) holds the
\* empty state: no records; nothing spent, no provider totals and the default
\* budget; an empty chain.  Every operation after it works.
C22_CorruptFilesLoadEmpty ==
    /\ (ret.op = "loadVault" /\ vaultFile.kind # "json") => records = <<>>
    /\ (ret.op = "loadWallet" /\ walletFile.kind # "json") =>
            \E t \in Timestamps : data = NewWallet(DefaultBudget, t)
    /\ (ret.op = "load" /\ receiptsFile.kind # "json") => receipts = <<>>
    /\ "threw" \notin DOMAIN ret

\* C23: after any persisting operation the vault, wallet and receipts files are
\* readable and writable by their owner only (mode 0600), whatever the umask
\* (022 or 077) the process runs with.
C23_FilesOwnerOnly ==
    \A file \in {vaultFile, walletFile, receiptsFile} :
        file.kind = "json" =>
            \A umask \in {{"gw", "ow"}, {"gr", "gw", "gx", "or", "ow", "ox"}} :
                file.mode \ umask = {"ur", "uw"}

\* C26: when several failure conditions hold for one request, call() reports
\* the earliest: an unregistered provider fails with UNKNOWN_PROVIDER whatever
\* the vault and the wallet hold; a registered provider without an active
\* credential fails with NO_CREDENTIAL whatever the budget; BUDGET_EXCEEDED is
\* reported only for a registered provider with a credential.
C26_FailurePrecedence ==
    \A c \in CallIds :
        LET f == calls[c]
        IN  f.pc # "IDLE" =>
                LET known == MapHas(providers, f.request.providerId)
                    held == has(records, f.request.providerId)
                IN  /\ ~known =>
                        /\ f.pc \in {"INIT", "FAILED"}
                        /\ f.pc = "FAILED" => f.error.code = "UNKNOWN_PROVIDER"
                    /\ (known /\ ~held) =>
                        /\ f.pc \in {"INIT", "PROVIDER_OK", "FAILED"}
                        /\ f.pc = "FAILED" => f.error.code = "NO_CREDENTIAL"
                    /\ (f.pc = "FAILED" /\ f.error.code = "BUDGET_EXCEEDED") =>
                        /\ known /\ held
                        /\ ~f.budgetCheck.allowed

\* a call failed with NO_CREDENTIAL although the wallet would have denied it
\* too, and one with UNKNOWN_PROVIDER although the vault holds no credential
\* for it
C26_Witness ==
    \E c1, c2 \in CallIds :
        /\ calls[c1].pc = "FAILED" /\ calls[c1].error.code = "NO_CREDENTIAL"
        /\ ~checkBudget(data, calls[c1].request.providerId,
                        estimateCost(providers, calls[c1].request.providerId,
                                     calls[c1].request.body)).allowed
        /\ calls[c2].pc = "FAILED" /\ calls[c2].error.code = "UNKNOWN_PROVIDER"
        /\ ~has(records, calls[c2].request.providerId)

\* C27: when the response's Content-Type contains application/json and its
\* body is not valid JSON, the body read of call() yields the raw text of the
\* body and the call goes on to record the spend and mint the receipt over it.
C27_InvalidJsonFallsBackToText ==
    [][\A c \in CallIds :
          (/\ calls[c].pc = "RESPONSE_HEADERS"
           /\ Includes(calls[c].response.contentType, "application/json")
           /\ calls[c].response.json = Undefined
           /\ BodyRead(c))
          => /\ calls'[c].pc = "RESPONSE_PARSED"
             /\ calls'[c].responseData = Str(calls[c].response.text)]_vars

\* C28: when the provider's auth_method is body and the body of the request is
\* not a JSON object (a string, an array, null or absent), call() fails with a
\* configuration error and dispatches nothing: it neither sends the request
\* without the credential nor coerces the body into an object.
C28_NonObjectBodyRejected ==
    \A c \in CallIds :
        LET f == calls[c]
        IN  (/\ f.provider # Unset
             /\ f.provider.authMethod = "body"
             /\ f.request.body.t # "obj")
            => /\ f.fetch = Unset
               /\ f.pc \in {"PROVIDER_OK", "CRED_OK", "BUDGET_OK", "FAILED"}

\* C29: when the provider's auth_method is body and the body of the request is
\* a JSON object, the dispatched body is the caller's body with the provider's
\* auth field set to the raw credential (a key of that name in the caller's
\* body is overridden, every other key is kept), the caller's body object is
\* unchanged, and the request descriptor that is minted has bodyHash "present".
C29_BodyInjection ==
    \A c \in CallIds :
        LET f == calls[c]
        IN  (/\ f.fetch # Unset
             /\ f.provider.authMethod = "body"
             /\ f.request.body.t = "obj")
            => LET sent == f.heap[f.body.v]
                   keys(o) == {o.v[i].k : i \in 1..Len(o.v)}
               IN  /\ f.fetch.body = Str(JSONStringify(sent))
                   /\ keys(sent) = keys(f.request.body) \cup {f.provider.authField}
                   /\ Get(sent, f.provider.authField) =
                          Str(MapGet(records, f.request.providerId).credential)
                   /\ \A k \in keys(f.request.body) \ {f.provider.authField} :
                          Get(sent, k) = Get(f.request.body, k)
                   /\ f.heap["request.body"] = f.request.body
                   /\ f.requestDescriptor # Unset =>
                          Get(f.requestDescriptor, "bodyHash") = Str("present")

\* a call returned whose body held a value of its own under the provider's
\* auth field: the credential was sent in its place
C29_Witness ==
    \E c \in CallIds :
        /\ calls[c].pc = "DONE"
        /\ calls[c].provider.authMethod = "body"
        /\ calls[c].request.body.t = "obj"
        /\ Get(calls[c].request.body, "key") = Str("mine")
        /\ calls[c].fetch.body = Str("{\"key\":\"SECRET\",\"q\":\"x\"}")
        /\ Get(calls[c].requestDescriptor, "bodyHash") = Str("present")

\* C30: injectAuth and getCredentialForBodyInjection fail with a NO_CREDENTIAL
\* error when the vault has no record for the provider or the record is not
\* active, and the supplied headers and query parameters are then unchanged;
\* has(p) is true exactly when a record for p exists and is active: false after
\* remove(p), true after store(p, c).
C30_InjectionNeedsCredential ==
    /\ (/\ ret.op \in {"injectAuth", "getCredentialForBodyInjection"}
        /\ ~(MapHas(records, ret.providerId) /\ MapGet(records, ret.providerId).active))
       => /\ "threw" \in DOMAIN ret
          /\ ret.threw.code = "NO_CREDENTIAL"
          /\ ret.op = "injectAuth" => <<ret.headers, ret.queryParams>> = ret.supplied
    /\ ret.op = "has" =>
          ret.value = (MapHas(records, ret.providerId)
                       /\ MapGet(records, ret.providerId).active)
    /\ ret.op = "remove" => ~has(records, ret.providerId)
    /\ ret.op = "store" => has(records, ret.providerId)

---------------------------------------------------------------------------
(* The remote (HLOS) tool handlers *)

\* C24: callApi returns the UNSUPPORTED_OPERATION payload and sends nothing to
\* the kernel for every request that is not provider openai, method POST and
\* path chat/completions (optionally prefixed by v1/ and by leading slashes);
\* for a supported request it sends exactly one POST to /api/v2/proxy/call.
C24_UnsupportedNotSent ==
    [][LET p == ret'.params
           supported ==
               /\ p.provider = "openai"
               /\ p.method = "POST"
               /\ \E slashes \in {"", "/", "//"}, version \in {"", "v1/"} :
                     p.path = slashes \o version \o "chat/completions"
       IN  IF supported
           THEN /\ Len(kernelRequests') = Len(kernelRequests) + 1
                /\ SubSeq(kernelRequests', 1, Len(kernelRequests)) = kernelRequests
                /\ kernelRequests'[Len(kernelRequests')].method = "POST"
                /\ kernelRequests'[Len(kernelRequests')].path = "/api/v2/proxy/call"
           ELSE /\ kernelRequests' = kernelRequests
                /\ ~ret'.value.isError
                /\ Get(ret'.value.content, "code") = Str("UNSUPPORTED_OPERATION")]_vars

\* after one supported call, a call for another provider was answered with
\* UNSUPPORTED_OPERATION and the kernel has still seen one request
C24_Witness ==
    /\ ret.op = "callApi"
    /\ ret.params.provider = "anthropic"
    /\ ret.params.path = "/chat/completions"
    /\ ret.params.method = "POST"
    /\ Get(ret.value.content, "code") = Str("UNSUPPORTED_OPERATION")
    /\ Len(kernelRequests) = 1

\* C25: with BUTTERKNIFE_VERBOSE not "true", the payload callApi returns for a
\* successful kernel call has exactly the keys status, data and receipt_id,
\* with the kernel's values: its cost and remaining_budget are not copied.
C25_AgentViewOnly ==
    (/\ ret.op = "callApi"
     /\ ~verbose
     /\ "outcome" \in DOMAIN ret
     /\ ret.outcome.kind = "resolved"
     /\ ret.outcome.data # Null)
    => LET payload == ret.value.content
       IN  /\ ~ret.value.isError
           /\ {payload.v[i].k : i \in 1..Len(payload.v)} = {"status", "data", "receipt_id"}
           /\ \A k \in {"status", "data", "receipt_id"} :
                  Get(payload, k) = Get(ret.outcome.data, k)

\* a call without BUTTERKNIFE_VERBOSE returned the view of a kernel response
\* that carried a cost and a remaining budget
C25_Witness ==
    /\ ret.op = "callApi"
    /\ ~verbose
    /\ "outcome" \in DOMAIN ret
    /\ ret.outcome.kind = "resolved"
    /\ ret.outcome.data # Null
    /\ Get(ret.outcome.data, "cost") = Num(6000)
    /\ Get(ret.outcome.data, "remaining_budget") = Num(94000)
    /\ Get(ret.value.content, "receipt_id") = Str("rcpt_1")

---------------------------------------------------------------------------
(* Reads of the ledger, the registry and the cost estimate *)

\* C31: recent(n) returns the last n receipts of the chain in chain order for
\* every n >= 0, the whole chain when it has fewer than n receipts, and no
\* receipt for n = 0.
C31_RecentIsTail ==
    ret.op = "getRecent" =>
        LET len == Len(receipts)
            k == IF ret.n < len THEN ret.n ELSE len
        IN  /\ Len(ret.value) = k
            /\ \A i \in 1..k : ret.value[i] = receipts[len - k + i]

\* C32: when verify() returns valid = false, brokenAt is the smallest index at
\* which previousReceiptHash differs from the receiptHash of the receipt before
\* (the genesis hash at index 0) or the recomputed hash differs from the stored
\* receiptHash; every receipt before it passes both checks; and verify()
\* changes nothing in the ledger.
C32_FirstBrokenLink ==
    /\ [](ret.op = "verify" =>
            LET linkFails(i) ==
                    receipts[i + 1].previousReceiptHash #
                        (IF i = 0 THEN GENESIS_HASH ELSE receipts[i].receiptHash)
                hashFails(i) ==
                    receipts[i + 1].receiptHash # ExpectedHash(receipts[i + 1])
                failing == {i \in 0..(Len(receipts) - 1) : linkFails(i) \/ hashFails(i)}
            IN  IF ret.value.valid THEN failing = {}
                ELSE /\ ret.value.brokenAt \in failing
                     /\ \A i \in failing : ret.value.brokenAt <= i)
    /\ [][ret'.op = "verify" =>
            UNCHANGED <<receipts, contextId, receiptsFile>>]_vars

\* verify() found the second receipt of an altered chain broken, the first
\* one intact
C32_Witness ==
    /\ ret.op = "verify"
    /\ ~ret.value.valid
    /\ ret.value.brokenAt = 1
    /\ Len(receipts) >= 2
    /\ receipts[1].receiptHash = ExpectedHash(receipts[1])

\* C33: list() returns the built-in providers first, in their fixed order, then
\* the ids users added, in the order they were first registered; add() of an
\* id that is registered replaces the whole record in place, so that get(id)
\* returns the new record and list() holds no id twice.
C33_RegistryOrder ==
    /\ [](LET ids == [i \in 1..Len(providers) |-> providers[i].k]
          IN  /\ SubSeq(ids, 1, Len(DEFAULT_PROVIDERS)) =
                     [i \in 1..Len(DEFAULT_PROVIDERS) |-> DEFAULT_PROVIDERS[i].id]
              /\ \A i, j \in 1..Len(ids) : ids[i] = ids[j] => i = j
              /\ \A i \in 1..Len(ids) : providers[i].v.id = ids[i]
              /\ ret.op = "listProviders" =>
                     ret.value = [i \in 1..Len(providers) |-> providers[i].v]
              /\ ret.op = "getProvider" =>
                     \A i \in 1..Len(ids) :
                         ids[i] = ret.providerId => ret.value = providers[i].v
              /\ ret.op = "add" =>
                     \E i \in 1..Len(ids) :
                         ids[i] = ret.provider.id /\ providers[i].v = ret.provider)
    /\ [][ret'.op = "add" =>
            LET ids == [i \in 1..Len(providers) |-> providers[i].k]
                ids2 == [i \in 1..Len(providers') |-> providers'[i].k]
            IN  /\ ids2 = IF \E i \in 1..Len(ids) : ids[i] = ret'.provider.id
                          THEN ids ELSE Append(ids, ret'.provider.id)
                /\ \A i \in 1..Len(ids) :
                       ids[i] # ret'.provider.id => providers'[i] = providers[i]]_vars

\* list() after a user replaced the built-in openai and registered acme-query
\* twice: openai is still first with its new record, acme-query is listed once
\* with its second record, after acme-body that was registered before it
C33_Witness ==
    /\ ret.op = "listProviders"
    /\ ret.value[1].id = "openai" /\ ret.value[1].costPerUnit = 100
    /\ Len(ret.value) = Len(DEFAULT_PROVIDERS) + 2
    /\ ret.value[Len(ret.value) - 1].id = "acme-body"
    /\ ret.value[Len(ret.value)].id = "acme-query"
    /\ ret.value[Len(ret.value)].costPerUnit = 700

\* C34: estimateCost returns 0 for an unknown provider and costPerUnit for
\* per_request; for per_1k_tokens it returns ceil((ceil(L / 4) / 1000) *
\* costPerUnit), L being the length of the canonical JSON serialisation of the
\* request body (an absent body serialises as null, a string body as its
\* JSON-quoted encoding); per_1k_chars uses the length of the same
\* serialisation in place of the token count.
C34_EstimateFromSerialisation ==
    ret.op = "estimateCost" =>
        LET L == IF ret.requestBody.t = "undef" THEN Len("null")
                 ELSE Len(stableStringify(ret.requestBody))
            provider == MapGet(providers, ret.providerId)
        IN  IF ~MapHas(providers, ret.providerId) THEN ret.value = 0
            ELSE CASE provider.costUnit = "per_request" ->
                        ret.value = provider.costPerUnit
                   [] provider.costUnit = "per_1k_tokens" ->
                        ret.value = (((L + 3) \div 4) * provider.costPerUnit + 999) \div 1000
                   [] provider.costUnit = "per_1k_chars" ->
                        ret.value = (L * provider.costPerUnit + 999) \div 1000

\* C35: the contextId of the ledger is generated once, at the first
\* construction over a data file, and persisted from then on: every later
\* ledger constructed over the same file, with or without a mint in between,
\* has the same contextId, and every receipt of the chain carries it.
C35_ContextIdIsStable ==
    /\ [](tamper = NoTamper =>
            \A i \in 1..Len(receipts) : receipts[i].contextId = contextId)
    /\ [][(ret'.op = "load" /\ tamper' = NoTamper) => contextId' = contextId]_vars

\* C36: the dispatched URL is the provider's baseUrl with all trailing slashes
\* removed, joined to the request path with exactly one '/' between them, for
\* every baseUrl and path, with or without trailing or leading slashes,
\* followed by the query parameters, an injected one included.
C36_UrlJoin ==
    ret.op = "buildUrl" =>
        LET n == CHOOSE n \in 0..Len(ret.baseUrl) :
                    /\ n = 0 \/ SubSeq(ret.baseUrl, n, n) # "/"
                    /\ \A i \in (n + 1)..Len(ret.baseUrl) : SubSeq(ret.baseUrl, i, i) = "/"
            m == CHOOSE m \in 1..(Len(ret.path) + 1) :
                    /\ m = Len(ret.path) + 1 \/ SubSeq(ret.path, m, m) # "/"
                    /\ \A i \in 1..(m - 1) : SubSeq(ret.path, i, i) = "/"
        IN  ret.value = SubSeq(ret.baseUrl, 1, n) \o "/"
                        \o SubSeq(ret.path, m, Len(ret.path))
                        \o (IF ret.queryParams.v = <<>> THEN ""
                            ELSE "?" \o QueryString(ret.queryParams.v))

---------------------------------------------------------------------------
(* The accounts of call(): wallet, ledger and the frames of their operations *)

\* C37: from a fresh wallet and an empty ledger, after any sequence of call()
\* invocations, returning or failing, with no resetSpend, the wallet's spent
\* equals summary().totalCost and byProvider[p] equals
\* summary().byProvider[p].cost for every provider p.
C37_WalletMatchesLedger ==
    AllSettled =>
        /\ data.spent = summary(receipts, contextId).totalCost
        /\ DOMAIN data.byProvider = DOMAIN summary(receipts, contextId).byProvider
        /\ \A p \in DOMAIN data.byProvider :
              data.byProvider[p] = summary(receipts, contextId).byProvider[p].cost

\* C38: every call() that returns appends exactly one receipt, the returned
\* one: its providerId is the request's provider, its cost is the returned
\* cost and the amount by which the wallet's spent grew; the returned
\* remainingBudget is totalBudget - spent after the call.  Every call() that
\* fails appends no receipt.
C38_OneReceiptPerReturn ==
    /\ [](/\ Len(receipts) =
                Cardinality({c \in CallIds : calls[c].pc \in {"RECEIPT_MINTED", "DONE"}})
          /\ \A c \in CallIds :
                calls[c].pc = "DONE" =>
                    LET f == calls[c]
                    IN  /\ Cardinality({i \in 1..Len(receipts) :
                                           receipts[i] = f.result.receipt}) = 1
                        /\ f.result.receipt.providerId = f.request.providerId
                        /\ f.result.receipt.cost = f.result.cost
                        /\ f.result.cost = f.actualCost.v)
    /\ [][\A c \in CallIds :
            /\ (calls[c].pc # "SPEND_RECORDED" /\ calls'[c].pc = "SPEND_RECORDED") =>
                  data'.spent = Plus(data.spent, calls'[c].actualCost.v)
            /\ (calls[c].pc # "DONE" /\ calls'[c].pc = "DONE") =>
                  /\ receipts'[Len(receipts')] = calls'[c].result.receipt
                  /\ calls'[c].result.remainingBudget = data'.totalBudget - data'.spent]_vars

\* C39: the ledger is append-only: mint adds one receipt at the end and leaves
\* every existing receipt unchanged; getChain, getRecent, verify and summary
\* change neither the receipts nor the contextId; so the chain before any of
\* these operations is a prefix of the chain after it.
C39_AppendOnly ==
    [][/\ ret'.op = "mint" =>
            /\ Len(receipts') = Len(receipts) + 1
            /\ \A i \in 1..Len(receipts) : receipts'[i] = receipts[i]
            /\ receipts'[Len(receipts')] = ret'.value
            /\ contextId' = contextId
       /\ ret'.op \in {"getChain", "getRecent", "verify", "summary"} =>
            /\ receipts' = receipts
            /\ contextId' = contextId
       /\ ret'.op # "load" =>
            /\ Len(receipts) <= Len(receipts')
            /\ SubSeq(receipts', 1, Len(receipts)) = receipts]_vars

\* a mint onto a chain of two receipts, read back whole
C39_Witness ==
    /\ tamper = NoTamper
    /\ ret.op = "getChain"
    /\ Len(ret.value) = MaxReceipts
    /\ ret.value = receipts
    /\ receipts[MaxReceipts].previousReceiptHash = receipts[MaxReceipts - 1].receiptHash

\* C40: the frames of the wallet's operations: setBudget changes only
\* totalBudget; resetSpend sets spent to 0 and byProvider to empty and keeps
\* totalBudget; recordSpend(p, c) changes only spent and byProvider[p], keeping
\* totalBudget and every other provider's entry; getState and checkBudget
\* change nothing.
C40_WalletFrames ==
    [][/\ ret'.op = "setBudget" =>
            /\ data'.totalBudget = ret'.value.totalBudget
            /\ data'.spent = data.spent
            /\ data'.byProvider = data.byProvider
       /\ ret'.op = "resetSpend" =>
            /\ data'.spent = 0
            /\ data'.byProvider = EmptyObject
            /\ data'.totalBudget = data.totalBudget
       /\ ret'.op = "recordSpend" =>
            /\ data'.totalBudget = data.totalBudget
            /\ data'.spent = Plus(data.spent, ret'.cost)
            /\ DOMAIN data'.byProvider = DOMAIN data.byProvider \cup {ret'.providerId}
            /\ data'.byProvider[ret'.providerId]
                  = Plus(SpendOf(data.byProvider, ret'.providerId), ret'.cost)
            /\ \A q \in DOMAIN data.byProvider \ {ret'.providerId} :
                  data'.byProvider[q] = data.byProvider[q]
       /\ ret'.op \in {"getState", "checkBudget"} =>
            /\ data' = data
            /\ walletFile' = walletFile
       /\ data'.createdAt = data.createdAt]_vars

\* a budget set on a wallet that has recorded spends of both providers
C40_Witness ==
    /\ ret.op = "setBudget"
    /\ DOMAIN data.byProvider = WalletProviderIds
    /\ \A p \in WalletProviderIds : data.byProvider[p] > 0
    /\ data.spent = SumOf(data.byProvider)
    /\ data.totalBudget < data.spent

=======================================================================
